---- MODULE Spec2Model ----
(***************************************************************************)
(* binaryen-rs: the safe Rust wrapper around the Binaryen IR builder.      *)
(*                                                                         *)
(* The model covers the ownership layer of src/src/lib.rs (Module,         *)
(* InnerModule, Expr and the Rc<InnerModule> that ties them together) and  *)
(* the Relooper wrapper of src/src/relooper.rs (block table, block         *)
(* identities, the debug assertions on the owning module, render).         *)
(*                                                                         *)
(* The structuring algorithm behind Relooper::render is the native         *)
(* Binaryen library (src/binaryen-sys links it; its code is not part of    *)
(* these sources).  It is modelled from section 4.3 of the specification:  *)
(* the classical Relooper shapes (Simple, Loop, Multiple), their rendering *)
(* to a structured expression, and the execution of that expression in     *)
(* step with a walk of the graph it was rendered from.                     *)
(*                                                                         *)
(* Further parts: the global code generation configuration and its lock    *)
(* (set_global_codegen_config, Module::optimize), reading a module from    *)
(* bytes and generating one from a seed (Module::read, src/src/tools.rs),  *)
(* and the calls that take a name (src/src/to_cstr.rs).                    *)
(*                                                                         *)
(* Also: function types and functions (FnType, FnRef), the segments of     *)
(* Module::set_memory, the pass catalog src/binaryen-sys/build.rs          *)
(* generates, and the Stash that keeps a name's C string alive.            *)
(***************************************************************************)
EXTENDS Integers, Sequences, FiniteSets, Bags, TLC

VARIABLES
    debug_assertions,   \* cfg(debug_assertions) of the build: decides debug_assert!
    modules,            \* per native module: the Module value, the Rc strong count, disposals
    nodes,              \* the expression nodes allocated so far (index = raw reference)
    exprs,              \* the bag of live Expr values {_module_ref, raw}
    reloopers,          \* per Relooper: the value, its module_ref, its block table, native state
    rblocks,            \* the native relooper blocks (index = RelooperBlockRef)
    idents,             \* the PlainBlock / SwitchBlock identities handed to the caller
    call,               \* the last Relooper call and how it ended
    graph,              \* native relooper: the blocks of one control-flow graph and their edges
    phase,              \* native relooper: "build", "run" (the output executes) or "done"
    prog,               \* the structured expression RelooperRenderAndDispose returned
    todo,               \* execution of prog: the statements still to run
    stack,              \* execution of prog: the enclosing labeled blocks and loops
    args,               \* the entry block and the label_helper local given to render
    locals,             \* execution of prog: the values of the function's locals
    walk,               \* the walk of the original graph, in step with the execution
    diverged,           \* the execution did something the walk of the graph does not
    INIT,               \* static INIT: Once of set_global_codegen_config
    MUTEX,              \* static mut MUTEX: Option<Mutex<()>> and the thread holding it
    config,             \* the native library's global optimize level, shrink level, debug info
    pc,                 \* per thread: where it is in set_global_codegen_config or optimize
    codegen_config,     \* per thread: the &CodegenConfig it passed
    optimized,          \* the configuration the last Module::optimize ran with
    process,            \* the caller's process: "running" or "aborted"
    wasm,               \* per native module: what it holds and whether it validates
    tool,               \* the last call of read / translate_to_fuzz and what it did
    decls,              \* the declarations (functions, globals, imports, exports) added
    named,              \* the last call that took a name and how it ended
    pass_cpp,           \* the lines of binaryen/src/passes/pass.cpp the build script reads
    passes_rs,          \* src/passes.rs as the build script generated it
    lookup,             \* the last OptimizationPass::from_str call and its result
    heap,               \* the C strings allocated so far (index = address)
    stashes             \* the Stash values made so far

wvars == <<debug_assertions, modules, nodes, exprs, reloopers, rblocks, idents, call>>
rvars == <<graph, phase, prog, args, todo, stack, locals, walk, diverged>>
cvars == <<INIT, MUTEX, config, pc, codegen_config, optimized>>
bvars == <<process, wasm, tool>>
nvars == <<decls, named>>
svars == <<pass_cpp, passes_rs, lookup, heap, stashes>>
xvars == <<cvars, bvars, nvars, svars>>
vars == <<wvars, rvars, xvars>>

----------------------------------------------------------------------------
\* the local slots a caller can hand to render as label_helper
LabelHelpers == {0, 1}

(* Bounds of the model. *)

\* The number of objects (modules, expression nodes, Reloopers, edges) a run
\* of the Relooper specification allocates, and the number of objects
\* (modules, nodes, duplicate handles) a run of the construction
\* specification allocates.
MaxObjects == 6
MaxArenaObjects == 5

ModuleIds == 1..Len(modules)
RelooperIds == 1..Len(reloopers)
NoExpr == 0          \* ptr::null_mut() for an absent Option<Expr>

----------------------------------------------------------------------------
(* Rc<InnerModule>: the strong count and the Drop of InnerModule. *)

\* Rc::clone(&module.inner)
RcClone(ms, m) == [ms EXCEPT ![m].rc = @ + 1]

\* Dropping one Rc<InnerModule>; the last one runs InnerModule::drop, which
\* calls BinaryenModuleDispose.
RcDrop(ms, m) ==
    IF ms[m].rc = 1
    THEN [ms EXCEPT ![m].rc = 0, ![m].disposed = @ + 1]
    ELSE [ms EXCEPT ![m].rc = @ - 1]

\* Dropping the Rc of every Expr of a sequence, in order (Expr::into_raw
\* consumes self; an unwinding call drops its arguments).
RECURSIVE RcDropAll(_, _)
RcDropAll(ms, es) ==
    IF es = <<>> THEN ms
    ELSE RcDropAll(RcDrop(ms, Head(es).module_ref), Tail(es))

Expr_from_raw_other(m, raw) == [module_ref |-> (m % Len(modules)) + 1, raw |-> raw]

\* Expr::from_raw: the handle pairs the raw reference with a clone of the
\* module's Rc.
Expr_from_raw(m, raw) == [module_ref |-> m, raw |-> raw]

\* Expr::into_raw: the raw reference of the handle.
Expr_into_raw(e) == e.raw

RECURSIVE SeqToBag(_)
SeqToBag(es) ==
    IF es = <<>> THEN EmptyBag
    ELSE SeqToBag(Tail(es)) (+) SetToBag({Head(es)})

RawsOf(es) == [i \in 1..Len(es) |-> Expr_into_raw(es[i])]

\* The sequences of up to n distinct live Expr values the caller can pass.
Handles == BagToSet(exprs)
Operands(n) ==
    {es \in UNION {[1..k -> Handles] : k \in 0..n} : SeqToBag(es) \sqsubseteq exprs}

ModuleLive(m) == modules[m].value = "live"

\* The number of edges handed to the native relooper so far.
RECURSIVE SumOut(_)
SumOut(bs) == IF bs = <<>> THEN 0 ELSE Len(Head(bs).out) + SumOut(Tail(bs))
BranchCount == SumOut(rblocks)

\* The objects allocated so far.
Allocated == Len(modules) + Len(nodes) + Len(reloopers) + BranchCount

----------------------------------------------------------------------------
InitWrapper ==
    /\ debug_assertions \in BOOLEAN
    /\ modules = <<>>
    /\ nodes = <<>>
    /\ exprs = EmptyBag
    /\ reloopers = <<>>
    /\ rblocks = <<>>
    /\ idents = {}
    /\ call = [op |-> "none", ok |-> TRUE, foreign |-> FALSE, alien |-> FALSE]

InitGraph ==
    /\ graph = <<>>
    /\ phase = "build"
    /\ prog = <<>>
    /\ todo = <<>>
    /\ stack = <<>>
    /\ args = [entry |-> 0, label_helper |-> 0]
    /\ locals = [i \in LabelHelpers |-> 0]
    /\ walk = [at |-> 0, idx |-> 0, st |-> "done"]
    /\ diverged = FALSE

\* The threads of the process that call set_global_codegen_config or
\* Module::optimize.
MaxThreads == 3
Threads == 1..MaxThreads
NoThread == 0

\* The values of CodegenConfig the callers pass, and the setting the native
\* library starts with before any call.
CodegenConfigs ==
    {[shrink_level |-> 0, optimization_level |-> 0, debug_info |-> TRUE],
     [shrink_level |-> 2, optimization_level |-> 3, debug_info |-> TRUE]}
DefaultConfig == [shrink_level |-> 1, optimization_level |-> 2, debug_info |-> FALSE]

InitConfig ==
    /\ INIT = "new"
    /\ MUTEX = [some |-> FALSE, holder |-> NoThread, created |-> 0]
    /\ config = DefaultConfig
    /\ pc = [t \in Threads |-> "idle"]
    /\ codegen_config = [t \in Threads |-> DefaultConfig]
    /\ optimized = [ran |-> FALSE, config |-> DefaultConfig]

InitBinary ==
    /\ process = "running"
    /\ wasm = <<>>
    /\ tool = [op |-> "none", input |-> <<>>, native |-> FALSE, module |-> 0]

InitNames ==
    /\ decls = <<>>
    /\ named = [op |-> "none", nul |-> FALSE, ok |-> TRUE]

InitStrings ==
    /\ pass_cpp = <<>>
    /\ passes_rs = [generated |-> FALSE, passes |-> <<>>, fromstrs |-> <<>>]
    /\ lookup = [op |-> "none", s |-> <<>>, result |-> [ok |-> FALSE, pass |-> <<>>]]
    /\ heap = <<>>
    /\ stashes = <<>>

Init == InitWrapper /\ InitGraph /\ InitConfig /\ InitBinary /\ InitNames /\ InitStrings

----------------------------------------------------------------------------
(* Module *)

\* Module::new / Module::from_raw: a fresh native module behind a fresh Rc.
Module_new(limit) ==
    /\ Allocated < limit
    /\ modules' = Append(modules, [value |-> "live", rc |-> 1, disposed |-> 0])
    /\ UNCHANGED <<debug_assertions, nodes, exprs, reloopers, rblocks, idents, call, rvars, xvars>>

\* The Module value goes out of scope: its Rc is dropped.
Module_drop_value ==
    \E m \in ModuleIds :
        /\ ModuleLive(m)
        /\ modules' = RcDrop([modules EXCEPT ![m].value = "dropped"], m)
        /\ UNCHANGED <<debug_assertions, nodes, exprs, reloopers, rblocks, idents, call, rvars, xvars>>

ConstructByReference(limit, m, es) ==
    /\ ModuleLive(m)
    /\ Allocated < limit
    /\ nodes' = Append(nodes, [owner |-> m, children |-> RawsOf(es)])
    /\ exprs' = exprs (+) SetToBag({Expr_from_raw(m, Len(nodes) + 1)})
    /\ modules' = RcClone(modules, Expr_from_raw(m, Len(nodes) + 1).module_ref)
    /\ UNCHANGED <<debug_assertions, reloopers, rblocks, idents, call, rvars, xvars>>

\* The shape shared by every construction call of Module: each operand is
\* turned into its raw reference (into_raw, dropping the operand's Rc), the
\* native call allocates the node in self's arena, and Expr::from_raw wraps
\* the result with a clone of self's Rc.
Construct(limit, m, es) ==
    /\ ModuleLive(m)
    /\ Allocated < limit
    /\ nodes' = Append(nodes, [owner |-> m, children |-> RawsOf(es)])
    /\ exprs' = (exprs (-) SeqToBag(es)) (+) SetToBag({Expr_from_raw(m, Len(nodes) + 1)})
    /\ modules' = RcClone(RcDropAll(modules, es), Expr_from_raw(m, Len(nodes) + 1).module_ref)
    /\ UNCHANGED <<debug_assertions, reloopers, rblocks, idents, call, rvars, xvars>>

\* Module::const_ (and nop, unreachable, get_local, get_global: no operand)
Module_const_(limit) ==
    \E m \in ModuleIds : Construct(limit, m, <<>>)

\* Module::drop (and unary, set_local, tee_local, load, loop_: one operand)
Module_drop ==
    \E m \in ModuleIds : \E es \in Operands(1) :
        Len(es) = 1 /\ Construct(MaxArenaObjects, m, es)

\* Module::binary (and store: two operands)
Module_binary ==
    \E m \in ModuleIds : \E es \in Operands(2) :
        Len(es) = 2 /\ Construct(MaxArenaObjects, m, es)

\* Module::block (and call, host: any number of operands)
Module_block ==
    \E m \in ModuleIds : \E es \in Operands(2) :
        Construct(MaxArenaObjects, m, es)

\* Expr::from_raw called by the user on the raw reference of a live Expr
\* (as test_use_same_expr_twice does): a second handle to the same node.
Expr_rewrap ==
    \E m \in ModuleIds : \E e \in Handles :
        /\ ModuleLive(m)
        /\ Allocated + BagCardinality(exprs) < MaxArenaObjects
        /\ exprs' = exprs (+) SetToBag({Expr_from_raw(m, e.raw)})
        /\ modules' = RcClone(modules, Expr_from_raw(m, e.raw).module_ref)
        /\ UNCHANGED <<debug_assertions, nodes, reloopers, rblocks, idents, call, rvars, xvars>>

\* An Expr value goes out of scope unused.
Expr_drop_value ==
    \E e \in Handles :
        /\ exprs' = exprs (-) SetToBag({e})
        /\ modules' = RcDrop(modules, e.module_ref)
        /\ UNCHANGED <<debug_assertions, nodes, reloopers, rblocks, idents, call, rvars, xvars>>

----------------------------------------------------------------------------
(* Relooper *)

RelooperLive(r) == reloopers[r].value = "live"

\* Relooper::is_expr_from_same_module: Rc::ptr_eq of the two module
\* references.
is_expr_from_same_module(r, e) == reloopers[r].module_ref = e.module_ref

\* debug_assert!(cond): checked only when the build has debug assertions.
debug_assert(cond) == debug_assertions => cond

\* Relooper::get_raw_block: self.blocks[block.get_id()], an indexing that
\* panics when the index is out of the table's range.  Identities count
\* from 0, TLA+ sequences from 1.
InRange(r, b) == b.id < Len(reloopers[r].blocks)
get_raw_block(r, b) == reloopers[r].blocks[b.id + 1]

add_raw_block_first(rs, r, raw_block) == [rs EXCEPT ![r].blocks = <<raw_block>> \o @]

\* Relooper::add_raw_block: push the native block, return its index.
add_raw_block(rs, r, raw_block) == [rs EXCEPT ![r].blocks = Append(@, raw_block)]

\* An Option<Expr> argument: None, or one live Expr.
OptExprs == {<<>>} \cup {<<e>> : e \in Handles}
RawOrNull(o) == IF o = <<>> THEN NoExpr ELSE Expr_into_raw(o[1])
Foreign(r, es) == \E i \in 1..Len(es) : ~is_expr_from_same_module(r, es[i])
Alien(r, bs) == \E i \in 1..Len(bs) : bs[i].origin # r

Called(op, r, ok, es, bs) ==
    [op |-> op, ok |-> ok, foreign |-> Foreign(r, es), alien |-> Alien(r, bs)]

\* A call that panics: the unwinding drops the Expr arguments it owns and
\* nothing else changes.
Panics(op, r, es, bs) ==
    /\ modules' = RcDropAll(modules, es)
    /\ exprs' = exprs (-) SeqToBag(es)
    /\ call' = Called(op, r, FALSE, es, bs)
    /\ UNCHANGED <<debug_assertions, nodes, reloopers, rblocks, idents, rvars, xvars>>

Relooper_new_first_module(m) ==
    [value |-> "live", module_ref |-> 1, blocks |-> <<>>, disposed |-> 0]

\* Relooper::new: RelooperCreate, an empty block table and the module
\* reference it is given.
Relooper_new(m) ==
    [value |-> "live", module_ref |-> m, blocks |-> <<>>, disposed |-> 0]

RelooperBorrowsModule(ms, m) == ms

\* The argument Module::relooper builds for Relooper::new:
\* Rc::clone(&self.inner).
RelooperModuleRef(ms, m) == RcClone(ms, m)

\* Module::relooper, in a run that allocates up to limit objects
relooper(limit) ==
    \E m \in ModuleIds :
        /\ ModuleLive(m)
        /\ Allocated < limit
        /\ reloopers' = Append(reloopers, Relooper_new(m))
        /\ modules' = RelooperModuleRef(modules, m)
        /\ call' = Called("relooper", Len(reloopers) + 1, TRUE, <<>>, <<>>)
        /\ UNCHANGED <<debug_assertions, nodes, exprs, rblocks, idents, rvars, xvars>>

Module_relooper == relooper(MaxObjects)

\* The native block RelooperAddBlock / RelooperAddBlockWithSwitch creates.
NativeBlock(r, switch, code, condition) ==
    [relooper |-> r, switch |-> switch, code |-> code, condition |-> condition,
     out |-> <<>>]

\* The body of add_block and add_block_with_switch once the assertions
\* passed: es = <<code>> or <<code, condition>>.
AddBlock(op, r, switch, es) ==
    /\ rblocks' = Append(rblocks,
          NativeBlock(r, switch, Expr_into_raw(es[1]),
                      IF switch THEN Expr_into_raw(es[2]) ELSE NoExpr))
    /\ reloopers' = add_raw_block(reloopers, r, Len(rblocks) + 1)
    /\ idents' = idents \cup
          {[switch |-> switch, id |-> Len(reloopers[r].blocks), origin |-> r]}
    /\ modules' = RcDropAll(modules, es)
    /\ exprs' = exprs (-) SeqToBag(es)
    /\ call' = Called(op, r, TRUE, es, <<>>)
    /\ UNCHANGED <<debug_assertions, nodes, rvars, xvars>>

\* Relooper::add_block
Relooper_add_block ==
    \E r \in RelooperIds : \E es \in Operands(1) :
        /\ RelooperLive(r)
        /\ Len(es) = 1
        /\ IF debug_assert(is_expr_from_same_module(r, es[1]))
           THEN AddBlock("add_block", r, FALSE, es)
           ELSE Panics("add_block", r, es, <<>>)

\* Relooper::add_block_with_switch
Relooper_add_block_with_switch ==
    \E r \in RelooperIds : \E es \in Operands(2) :
        /\ RelooperLive(r)
        /\ Len(es) = 2
        /\ IF /\ debug_assert(is_expr_from_same_module(r, es[1]))
              /\ debug_assert(is_expr_from_same_module(r, es[2]))
           THEN AddBlock("add_block_with_switch", r, TRUE, es)
           ELSE Panics("add_block_with_switch", r, es, <<>>)

\* The edge RelooperAddBranch / RelooperAddBranchForSwitch receives.
NativeBranch(for_switch, to_block, condition, indices, code) ==
    [for_switch |-> for_switch, to |-> to_block, condition |-> condition,
     indices |-> indices, code |-> code]

AddBranchToEveryBlock(bs, from_block, branch) ==
    [b \in 1..Len(bs) |-> [bs[b] EXCEPT !.out = Append(@, branch)]]

\* RelooperAddBranch and RelooperAddBranchForSwitch return nothing: the
\* edge is attached to the block it leaves.
AddBranchTo(bs, from_block, branch) ==
    [bs EXCEPT ![from_block].out = Append(@, branch)]

\* The body of add_branch and add_branch_for_switch after the lookups.
AddBranch(op, r, from, to, branch, es) ==
    /\ rblocks' = AddBranchTo(rblocks, get_raw_block(r, from), branch)
    /\ modules' = RcDropAll(modules, es)
    /\ exprs' = exprs (-) SeqToBag(es)
    /\ call' = Called(op, r, TRUE, es, <<from, to>>)
    /\ UNCHANGED <<debug_assertions, nodes, reloopers, idents, rvars, xvars>>

\* Relooper::add_branch, in a run that allocates up to limit objects
add_branch(limit) ==
    \E r \in RelooperIds : \E from \in idents : \E to \in idents :
    \E condition \in OptExprs : \E code \in OptExprs :
        /\ RelooperLive(r)
        /\ ~from.switch
        /\ SeqToBag(condition \o code) \sqsubseteq exprs
        /\ IF /\ debug_assert(~Foreign(r, condition))
              /\ debug_assert(~Foreign(r, code))
              /\ InRange(r, from)
              /\ InRange(r, to)
           THEN /\ Allocated < limit
                /\ AddBranch("add_branch", r, from, to,
                      NativeBranch(FALSE, get_raw_block(r, to), RawOrNull(condition),
                                   <<>>, RawOrNull(code)),
                      condition \o code)
           ELSE Panics("add_branch", r, condition \o code, <<from, to>>)

Relooper_add_branch == add_branch(MaxObjects)

\* The index lists a caller passes to add_branch_for_switch.
IndexLists == {<<>>, <<0>>}

\* Relooper::add_branch_for_switch, in a run that allocates up to limit
\* objects
add_branch_for_switch(limit) ==
    \E r \in RelooperIds : \E from \in idents : \E to \in idents :
    \E indices \in IndexLists : \E code \in OptExprs :
        /\ RelooperLive(r)
        /\ from.switch
        /\ IF /\ debug_assert(~Foreign(r, code))
              /\ InRange(r, from)
              /\ InRange(r, to)
           THEN /\ Allocated < limit
                /\ AddBranch("add_branch_for_switch", r, from, to,
                      NativeBranch(TRUE, get_raw_block(r, to), NoExpr, indices,
                                   RawOrNull(code)),
                      code)
           ELSE Panics("add_branch_for_switch", r, code, <<from, to>>)

Relooper_add_branch_for_switch == add_branch_for_switch(MaxObjects)

RenderedByReference(rs, r) == [rs EXCEPT ![r].disposed = @ + 1]

\* The Relooper value after render(self, ..): moved into the call, gone,
\* its native state disposed by RelooperRenderAndDispose.
Rendered(rs, r) == [rs EXCEPT ![r].value = "rendered", ![r].disposed = @ + 1]

\* The code of every block of a Relooper, in table order.
BlockCodes(r) ==
    [i \in 1..Len(reloopers[r].blocks) |-> rblocks[reloopers[r].blocks[i]].code]

\* Relooper::render: the entry lookup, RelooperRenderAndDispose allocating
\* the output in module_ref's arena, and an Expr holding a clone of
\* module_ref; self, and with it the Relooper's own Rc, is dropped.  In a
\* run that allocates up to limit objects.
render(limit) ==
    \E r \in RelooperIds : \E entry \in idents :
        /\ RelooperLive(r)
        /\ IF InRange(r, entry)
           THEN /\ Allocated < limit
                /\ nodes' = Append(nodes,
                      [owner |-> reloopers[r].module_ref, children |-> BlockCodes(r)])
                /\ exprs' = exprs (+)
                      SetToBag({Expr_from_raw(reloopers[r].module_ref, Len(nodes) + 1)})
                /\ modules' = RcDrop(RcClone(modules, reloopers[r].module_ref),
                                     reloopers[r].module_ref)
                /\ reloopers' = Rendered(reloopers, r)
                /\ call' = Called("render", r, TRUE, <<>>, <<entry>>)
                /\ UNCHANGED <<debug_assertions, rblocks, idents, rvars, xvars>>
           ELSE /\ modules' = RcDrop(modules, reloopers[r].module_ref)
                /\ reloopers' = [reloopers EXCEPT ![r].value = "dropped"]
                /\ call' = Called("render", r, FALSE, <<>>, <<entry>>)
                /\ UNCHANGED <<debug_assertions, nodes, exprs, rblocks, idents, rvars, xvars>>

Relooper_render == render(MaxObjects)

\* A Relooper value goes out of scope without render.  Relooper has no Drop
\* implementation: only its fields are dropped (the Vec and the Rc).
Relooper_drop_value ==
    \E r \in RelooperIds :
        /\ RelooperLive(r)
        /\ modules' = RcDrop(modules, reloopers[r].module_ref)
        /\ reloopers' = [reloopers EXCEPT ![r].value = "dropped"]
        /\ call' = Called("drop_relooper", r, TRUE, <<>>, <<>>)
        /\ UNCHANGED <<debug_assertions, nodes, exprs, rblocks, idents, rvars, xvars>>

----------------------------------------------------------------------------
(* The construction API of Module on its own. *)
NextArena ==
    \/ Module_new(MaxArenaObjects)
    \/ Module_drop_value
    \/ Module_const_(MaxArenaObjects)
    \/ Module_drop
    \/ Module_binary
    \/ Module_block
    \/ Expr_rewrap
    \/ Expr_drop_value

SpecArena == Init /\ [][NextArena]_vars

(* Modules, leaf expressions and Reloopers. *)
Next ==
    \/ Module_new(MaxObjects)
    \/ Module_drop_value
    \/ Module_const_(MaxObjects)
    \/ Expr_drop_value
    \/ Module_relooper
    \/ Relooper_add_block
    \/ Relooper_add_block_with_switch
    \/ Relooper_add_branch
    \/ Relooper_add_branch_for_switch
    \/ Relooper_render
    \/ Relooper_drop_value

Spec == Init /\ [][Next]_vars

(* Several Reloopers, their blocks and edges, with no value dropped. *)

\* The number of objects (modules, expression nodes, Reloopers, edges) a run
\* of this specification allocates.
MaxBlockObjects == 7

NextBlocks ==
    \/ Module_new(MaxBlockObjects)
    \/ Module_const_(MaxBlockObjects)
    \/ Module_relooper
    \/ Relooper_add_block
    \/ Relooper_add_block_with_switch
    \/ add_branch(MaxBlockObjects)
    \/ add_branch_for_switch(MaxBlockObjects)

SpecBlocks == Init /\ [][NextBlocks]_vars

(* One Relooper from creation to render, with its module and expressions. *)

\* The number of objects (modules, expression nodes, Reloopers, edges) a run
\* of this specification allocates.
MaxRelooperObjects == 5

NextRelooper ==
    \/ Module_new(MaxRelooperObjects)
    \/ Module_drop_value
    \/ Module_const_(MaxRelooperObjects)
    \/ Expr_drop_value
    \/ relooper(MaxRelooperObjects)
    \/ Relooper_add_block
    \/ Relooper_add_block_with_switch
    \/ add_branch(MaxRelooperObjects)
    \/ add_branch_for_switch(MaxRelooperObjects)
    \/ render(MaxRelooperObjects)
    \/ Relooper_drop_value

SpecRelooper == Init /\ [][NextRelooper]_vars
----------------------------------------------------------------------------
(* The native Relooper: the control-flow graph it is given. *)

\* Blocks are numbered in creation order; an edge is [to, cond, code], where
\* cond says the edge is guarded by a condition and code that it carries
\* transfer code.  MaxGraph bounds the size of what the relooper is given:
\* the blocks, the edges and the transfer codes of the graph, and the
\* numbers given to render (the entry's identity and the label helper).
MaxGraph == 7

GraphBlocks(g) == 1..Len(g)

RECURSIVE CountEdges(_)
CountEdges(g) ==
    IF g = <<>> THEN 0
    ELSE Len(Head(g).out)
         + Cardinality({i \in 1..Len(Head(g).out) : Head(g).out[i].code})
         + CountEdges(Tail(g))

GraphSize(g) == Len(g) + CountEdges(g)

InputSize(g, id, label_helper) == GraphSize(g) + id + label_helper

EdgeIdx(g, b) == 1..Len(g[b].out)

\* the guarded edges of block b, in insertion order
CondIdx(g, b) == SelectSeq([i \in EdgeIdx(g, b) |-> i], LAMBDA i : g[b].out[i].cond)

\* the unconditional edge of block b, 0 when it has none
DefaultIdx(g, b) ==
    IF \E i \in EdgeIdx(g, b) : ~g[b].out[i].cond
    THEN CHOOSE i \in EdgeIdx(g, b) :
            /\ ~g[b].out[i].cond
            /\ \A j \in EdgeIdx(g, b) : ~g[b].out[j].cond => i <= j
    ELSE 0

OutTargets(g, b) == {g[b].out[i].to : i \in EdgeIdx(g, b)}

\* the successors of b among the blocks B, leaving out the edges whose target
\* an enclosing shape has already turned into a branch
Succ(g, B, claimed, b) == (OutTargets(g, b) \cap B) \ claimed

RECURSIVE ReachableFrom(_, _, _, _, _)
ReachableFrom(g, B, claimed, frontier, seen) ==
    LET new == UNION {Succ(g, B, claimed, b) : b \in frontier} \ seen
    IN IF new = {} THEN seen
       ELSE ReachableFrom(g, B, claimed, new, seen \cup new)

\* the blocks reached from e by at least one edge, and those plus e itself
ReachedFrom(g, B, claimed, e) == ReachableFrom(g, B, claimed, {e}, {})
ReachedFromOrSelf(g, B, claimed, e) == {e} \cup ReachedFrom(g, B, claimed, e)

LiveBlocks(g, entry) == ReachedFromOrSelf(g, GraphBlocks(g), {}, entry)

HasBranchesIn(g, B, claimed, e) == \E b \in B : e \in Succ(g, B, claimed, b)

\* the blocks of B from which one of the entries E can be reached
CanReach(g, B, claimed, E) ==
    {b \in B : ReachedFromOrSelf(g, B, claimed, b) \cap E # {}}

\* the blocks that only entry e of the entries E leads to
IndependentGroup(g, B, claimed, E, e) ==
    ReachedFromOrSelf(g, B, claimed, e)
        \ UNION {ReachedFromOrSelf(g, B, claimed, o) : o \in E \ {e}}

\* the targets by which control leaves the blocks Inner for the rest of B
LeavingTargets(g, B, claimed, Inner) ==
    UNION {Succ(g, B, claimed, b) : b \in Inner} \ Inner

Min(S) == CHOOSE x \in S : \A y \in S : x <= y

RECURSIVE SetToSeq(_)
SetToSeq(S) == IF S = {} THEN <<>> ELSE <<Min(S)>> \o SetToSeq(S \ {Min(S)})

(* The native Relooper: shapes. *)

\* A list of shapes, each followed by the next: a Simple shape holds one
\* block, a Loop shape the blocks that can come back to its entries, a
\* Multiple shape one list of shapes per entry it handles.
RECURSIVE Process(_, _, _, _)
RECURSIVE ProcessHandled(_, _, _, _, _)

MakeSimple(g, B, claimed, e) ==
    LET nexts == Succ(g, B, claimed, e)
    IN <<[shape |-> "Simple", block |-> e, nexts |-> nexts]>>
       \o Process(g, B \ {e}, claimed, nexts)

MakeLoop(g, B, claimed, E) ==
    LET Inner == CanReach(g, B, claimed, E)
        nexts == LeavingTargets(g, B, claimed, Inner)
    IN <<[shape |-> "Loop", entries |-> E, nexts |-> nexts,
          inner |-> Process(g, Inner, claimed \cup E \cup nexts, E)]>>
       \o Process(g, B \ Inner, claimed, nexts)

ProcessHandled(g, B, claimed, E, es) ==
    IF es = <<>> THEN <<>>
    ELSE LET e == Head(es)
             group == IndependentGroup(g, B, claimed, E, e)
             nexts == LeavingTargets(g, B, claimed, group)
         IN <<[entry |-> e, nexts |-> nexts,
               inner |-> Process(g, group, claimed \cup nexts, {e})]>>
            \o ProcessHandled(g, B, claimed, E, Tail(es))

MakeMultiple(g, B, claimed, E, handled) ==
    LET groups == UNION {IndependentGroup(g, B, claimed, E, e) : e \in handled}
        nexts == (E \ handled)
                 \cup UNION {LeavingTargets(g, B, claimed,
                                 IndependentGroup(g, B, claimed, E, e)) : e \in handled}
    IN <<[shape |-> "Multiple",
          handled |-> ProcessHandled(g, B, claimed, E, SetToSeq(handled))]>>
       \o Process(g, B \ groups, claimed, nexts)

Process(g, B, claimed, E) ==
    IF E = {} THEN <<>>
    ELSE IF Cardinality(E) = 1
    THEN LET e == CHOOSE x \in E : TRUE
         IN IF HasBranchesIn(g, B, claimed, e)
            THEN MakeLoop(g, B, claimed, E)
            ELSE MakeSimple(g, B, claimed, e)
    ELSE LET handled == {e \in E : IndependentGroup(g, B, claimed, E, e) # {}}
         IN IF handled # {}
            THEN MakeMultiple(g, B, claimed, E, handled)
            ELSE MakeLoop(g, B, claimed, E)

Calculate(g, entry) == Process(g, LiveBlocks(g, entry), {}, {entry})

(* The native Relooper: rendering the shapes. *)

\* The statements of the output: sequences of run-the-body, run-the-transfer-
\* code, if/else on an edge's condition, write to a local, if/else on the
\* value of a local, labeled block, labeled loop and labeled branch.
Stmt(op, x, y, body, other) == [op |-> op, x |-> x, y |-> y, body |-> body, other |-> other]

Body(b) == Stmt("body", b, 0, <<>>, <<>>)
Code(b, i) == Stmt("code", b, i, <<>>, <<>>)
If(b, i, then, else) == Stmt("if", b, i, then, else)
SetLocal(index, value) == Stmt("set_local", index, value, <<>>, <<>>)
IfLocal(index, value, then, else) == Stmt("if_local", index, value, then, else)
Block(label, body) == Stmt("block", label, 0, body, <<>>)
Loop(label, body) == Stmt("loop", label, 0, body, <<>>)
Branch(how, label) == Stmt("branch", label, how, <<>>, <<>>)

ExitLabel == <<"Exit", 0>>

RECURSIVE CheckedEntries(_)
RECURSIVE CheckedHandled(_)

\* the blocks some Multiple shape finds by the value of the label helper
CheckedEntries(shapes) ==
    IF shapes = <<>> THEN {}
    ELSE LET s == Head(shapes)
         IN (CASE s.shape = "Simple" -> {}
               [] s.shape = "Loop" -> CheckedEntries(s.inner)
               [] s.shape = "Multiple" -> CheckedHandled(s.handled))
            \cup CheckedEntries(Tail(shapes))

CheckedHandled(hs) ==
    IF hs = <<>> THEN {}
    ELSE {Head(hs).entry} \cup CheckedEntries(Head(hs).inner)
         \cup CheckedHandled(Tail(hs))

\* the branch that every edge to one of the targets T becomes
Claims(T, stmt) == [t \in T |-> stmt]

Branch_RenderWithoutCode(r, claim, b, i) ==
    LET e == r.g[b].out[i]
    IN (IF e.to \in r.checked THEN <<SetLocal(r.label_helper, e.to)>> ELSE <<>>)
       \o <<claim[e.to]>>

\* an edge: its transfer code, the label helper when the target is found by
\* its value, then the branch
Branch_Render(r, claim, b, i) ==
    LET e == r.g[b].out[i]
    IN (IF e.code THEN <<Code(b, i)>> ELSE <<>>)
       \o (IF e.to \in r.checked THEN <<SetLocal(r.label_helper, e.to)>> ELSE <<>>)
       \o <<claim[e.to]>>

RECURSIVE Block_RenderBranchesLastFirst(_, _, _, _)
Block_RenderBranchesLastFirst(r, claim, b, conds) ==
    IF conds = <<>>
    THEN IF DefaultIdx(r.g, b) = 0
         THEN <<Branch("exit", ExitLabel)>>
         ELSE Branch_Render(r, claim, b, DefaultIdx(r.g, b))
    ELSE <<If(b, conds[Len(conds)],
              Branch_Render(r, claim, b, conds[Len(conds)]),
              Block_RenderBranchesLastFirst(r, claim, b, SubSeq(conds, 1, Len(conds) - 1)))>>

RECURSIVE Block_RenderBranches(_, _, _, _)
Block_RenderBranches(r, claim, b, conds) ==
    IF conds = <<>>
    THEN IF DefaultIdx(r.g, b) = 0
         THEN <<Branch("exit", ExitLabel)>>
         ELSE Branch_Render(r, claim, b, DefaultIdx(r.g, b))
    ELSE <<If(b, Head(conds),
              Branch_Render(r, claim, b, Head(conds)),
              Block_RenderBranches(r, claim, b, Tail(conds)))>>

Block_Render(r, claim, b) ==
    (IF b \in r.checked THEN <<SetLocal(r.label_helper, 0)>> ELSE <<>>)
    \o <<Body(b)>>
    \o Block_RenderBranches(r, claim, b, CondIdx(r.g, b))

RECURSIVE Render(_, _, _)
RECURSIVE RenderHandled(_, _, _, _)

SimpleShape_RenderInLoop(r, claim, s) ==
    LET l == <<"Simple", s.block>>
    IN Loop(l, Block_Render(r, claim @@ Claims(s.nexts, Branch("exit", l)), s.block))

SimpleShape_Render(r, claim, s) ==
    LET l == <<"Simple", s.block>>
    IN Block(l, Block_Render(r, claim @@ Claims(s.nexts, Branch("exit", l)), s.block))

LoopShape_Render(r, claim, s) ==
    LET l == <<"Loop", Min(s.entries)>>
    IN Loop(l, Render(r, claim @@ Claims(s.entries, Branch("restart", l))
                               @@ Claims(s.nexts, Branch("exit", l)),
                      s.inner))

MultipleShape_Render(r, claim, s) ==
    LET l == <<"Multiple", Head(s.handled).entry>>
    IN Block(l, RenderHandled(r, claim, l, s.handled))

RenderHandled(r, claim, l, hs) ==
    IF hs = <<>> THEN <<>>
    ELSE <<IfLocal(r.label_helper, Head(hs).entry,
                   Render(r, claim @@ Claims(Head(hs).nexts, Branch("exit", l)),
                          Head(hs).inner),
                   RenderHandled(r, claim, l, Tail(hs)))>>

Render(r, claim, shapes) ==
    IF shapes = <<>> THEN <<>>
    ELSE LET s == Head(shapes)
         IN <<CASE s.shape = "Simple" -> SimpleShape_Render(r, claim, s)
                [] s.shape = "Loop" -> LoopShape_Render(r, claim, s)
                [] s.shape = "Multiple" -> MultipleShape_Render(r, claim, s)>>
            \o Render(r, claim, Tail(shapes))

\* RelooperRenderAndDispose(relooper, entry, label_helper, module)
RelooperRender(g, entry, label_helper) ==
    LET shapes == Calculate(g, entry)
        r == [g |-> g, label_helper |-> label_helper, checked |-> CheckedEntries(shapes)]
    IN <<Block(ExitLabel, Render(r, [t \in {} |-> 0], shapes))>>

(* Walking the graph. *)

\* walk.st is "body" before the body of block walk.at runs, "cond" before its
\* walk.idx-th guarded edge is decided, "code" before the transfer code of
\* its edge walk.idx runs, and "done" when no edge leaves it.
Walk_at(b) == [at |-> b, idx |-> 0, st |-> "body"]

Walk_take(g, b, i) ==
    IF g[b].out[i].code
    THEN [at |-> b, idx |-> i, st |-> "code"]
    ELSE Walk_at(g[b].out[i].to)

Walk_edges(g, b, k) ==
    IF k <= Len(CondIdx(g, b))
    THEN [at |-> b, idx |-> k, st |-> "cond"]
    ELSE IF DefaultIdx(g, b) # 0
    THEN Walk_take(g, b, DefaultIdx(g, b))
    ELSE [at |-> b, idx |-> 0, st |-> "done"]

Walk_body(g, w) == Walk_edges(g, w.at, 1)

Walk_cond(g, w, holds) ==
    IF holds THEN Walk_take(g, w.at, CondIdx(g, w.at)[w.idx])
    ELSE Walk_edges(g, w.at, w.idx + 1)

Walk_code(g, w) == Walk_at(g[w.at].out[w.idx].to)

(* Building a graph, rendering it and executing the output. *)

(* Executing the output. *)

\* a configuration is the statements still to run, the enclosing labeled
\* constructs (innermost first) and the values of the locals
MaxQuiet == 32

Frame(s, rest) == [label |-> s.x, loop |-> s.op = "loop", body |-> s.body, rest |-> rest]

\* the innermost enclosing construct with the label, 0 when there is none
Enclosing(stk, label) ==
    IF \E k \in 1..Len(stk) : stk[k].label = label
    THEN CHOOSE k \in 1..Len(stk) :
            /\ stk[k].label = label
            /\ \A j \in 1..(k - 1) : stk[j].label # label
    ELSE 0

Stuck(c) == [c EXCEPT !.stuck = TRUE]

\* a branch leaves the construct it names, or starts the loop it names again
ExecBranch(c, s) ==
    LET k == Enclosing(c.stack, s.x)
    IN IF k = 0 \/ (s.y = "restart" /\ ~c.stack[k].loop)
       THEN Stuck(c)
       ELSE IF s.y = "restart"
       THEN [c EXCEPT !.todo = c.stack[k].body,
                      !.stack = SubSeq(c.stack, k, Len(c.stack))]
       ELSE [c EXCEPT !.todo = c.stack[k].rest,
                      !.stack = SubSeq(c.stack, k + 1, Len(c.stack))]

\* the end of a block's body leaves the block, the end of a loop's repeats it
ExecEnd(c) ==
    IF Head(c.stack).loop
    THEN [c EXCEPT !.todo = Head(c.stack).body]
    ELSE [c EXCEPT !.todo = Head(c.stack).rest, !.stack = Tail(c.stack)]

\* one step that runs no code of the caller's: entering a block or a loop,
\* writing or testing a local, branching
ExecQuiet(c) ==
    LET s == Head(c.todo)
    IN CASE s.op \in {"block", "loop"} ->
               [c EXCEPT !.todo = s.body, !.stack = <<Frame(s, Tail(c.todo))>> \o c.stack]
         [] s.op = "set_local" ->
               [c EXCEPT !.todo = Tail(c.todo), !.locals[s.x] = s.y]
         [] s.op = "if_local" ->
               [c EXCEPT !.todo = (IF c.locals[s.x] = s.y THEN s.body ELSE s.other)
                                  \o Tail(c.todo)]
         [] s.op = "branch" -> ExecBranch(c, s)

\* run up to the next body, condition or transfer code, or to the end
RECURSIVE Quiet(_, _)
Quiet(c, fuel) ==
    IF c.stuck THEN c
    ELSE IF c.todo = <<>>
    THEN IF c.stack = <<>> THEN c
         ELSE IF fuel = 0 THEN Stuck(c) ELSE Quiet(ExecEnd(c), fuel - 1)
    ELSE IF Head(c.todo).op \in {"body", "code", "if"} THEN c
    ELSE IF fuel = 0 THEN Stuck(c) ELSE Quiet(ExecQuiet(c), fuel - 1)

Start(ss) == [todo |-> ss, stack |-> <<>>, locals |-> [i \in LabelHelpers |-> 0], stuck |-> FALSE]

(* Building a graph, rendering it and executing the output in step with a *)
(* walk of the graph. *)

\* the execution goes on from configuration c with the walk at w; it has
\* diverged from the walk when it cannot go on, or ends before the walk does
Resume(c, w) ==
    LET q == Quiet(c, MaxQuiet)
    IN /\ todo' = q.todo
       /\ stack' = q.stack
       /\ locals' = q.locals
       /\ walk' = w
       /\ phase' = IF q.stuck \/ q.todo = <<>> THEN "done" ELSE "run"
       /\ diverged' = (q.stuck \/ (q.todo = <<>> /\ w.st # "done"))

Building == phase = "build"

RelooperAddBlock ==
    /\ Building
    /\ GraphSize(graph) < MaxGraph
    /\ graph' = Append(graph, [out |-> <<>>])
    /\ UNCHANGED <<wvars, xvars, phase, prog, args, todo, stack, locals, walk, diverged>>

\* the edges are a set: a block is given at most one edge to each target,
\* and at most one unconditional edge
RelooperAddBranch ==
    /\ Building
    /\ \E from \in GraphBlocks(graph), to \in GraphBlocks(graph), cond \in BOOLEAN, code \in BOOLEAN :
        /\ GraphSize(graph) + (IF code THEN 2 ELSE 1) <= MaxGraph
        /\ to \notin OutTargets(graph, from)
        /\ ~cond => DefaultIdx(graph, from) = 0
        /\ graph' = [graph EXCEPT ![from].out =
                        Append(@, [to |-> to, cond |-> cond, code |-> code])]
    /\ UNCHANGED <<wvars, xvars, phase, prog, args, todo, stack, locals, walk, diverged>>

RawBlockFirst(id) == 1

\* Relooper::render looks the entry up in the block table, where the block
\* with identity id is the (id + 1)-th block created
RawBlockAt(id) == id + 1

OtherLocal(label_helper) == 1 - label_helper

\* and hands label_helper on as it is
LabelHelperArg(label_helper) == label_helper

RelooperRenderAndDispose ==
    /\ Building
    /\ \E id \in 0..(Len(graph) - 1), label_helper \in LabelHelpers :
        /\ InputSize(graph, id, label_helper) <= MaxGraph
        /\ args' = [entry |-> id + 1, label_helper |-> label_helper]
        /\ LET output == RelooperRender(graph, RawBlockAt(id), LabelHelperArg(label_helper))
           IN prog' = output /\ Resume(Start(output), Walk_at(id + 1))
    /\ UNCHANGED <<wvars, xvars, graph>>

Running == phase = "run"

Config == [todo |-> Tail(todo), stack |-> stack, locals |-> locals, stuck |-> FALSE]

Diverge ==
    /\ phase' = "done"
    /\ diverged' = TRUE
    /\ UNCHANGED <<todo, stack, locals, walk>>

ExecBody ==
    /\ Running
    /\ Head(todo).op = "body"
    /\ IF walk.st = "body" /\ walk.at = Head(todo).x
       THEN Resume(Config, Walk_body(graph, walk))
       ELSE Diverge
    /\ UNCHANGED <<wvars, xvars, graph, prog, args>>

ExecCode ==
    /\ Running
    /\ Head(todo).op = "code"
    /\ IF walk.st = "code" /\ walk.at = Head(todo).x /\ walk.idx = Head(todo).y
       THEN Resume(Config, Walk_code(graph, walk))
       ELSE Diverge
    /\ UNCHANGED <<wvars, xvars, graph, prog, args>>

\* the condition of an edge holds or not, as the program's state has it
ExecIf ==
    /\ Running
    /\ Head(todo).op = "if"
    /\ IF /\ walk.st = "cond"
          /\ walk.at = Head(todo).x
          /\ CondIdx(graph, walk.at)[walk.idx] = Head(todo).y
       THEN \E holds \in BOOLEAN :
               Resume([Config EXCEPT !.todo = (IF holds THEN Head(todo).body
                                                ELSE Head(todo).other) \o @],
                      Walk_cond(graph, walk, holds))
       ELSE Diverge
    /\ UNCHANGED <<wvars, xvars, graph, prog, args>>

NextRender ==
    \/ RelooperAddBlock
    \/ RelooperAddBranch
    \/ RelooperRenderAndDispose
    \/ ExecBody
    \/ ExecCode
    \/ ExecIf

InitRender == Init /\ ~debug_assertions

SpecRender == InitRender /\ [][NextRender]_vars

(* The global code generation configuration. *)

\* a caller enters set_global_codegen_config with some configuration
set_global_codegen_config(t) ==
    /\ pc[t] = "idle"
    /\ \E c \in CodegenConfigs : codegen_config' = [codegen_config EXCEPT ![t] = c]
    /\ pc' = [pc EXCEPT ![t] = "call_once"]
    /\ UNCHANGED <<wvars, rvars, svars, bvars, nvars, INIT, MUTEX, config, optimized>>

INIT_call_once_without_waiting(t) ==
    /\ pc[t] = "call_once"
    /\ IF INIT = "new"
       THEN INIT' = "running" /\ pc' = [pc EXCEPT ![t] = "closure"]
       ELSE INIT' = INIT /\ pc' = [pc EXCEPT ![t] = "lock"]
    /\ UNCHANGED <<wvars, rvars, svars, bvars, nvars, MUTEX, config, codegen_config, optimized>>

\* INIT.call_once: the first caller runs the closure, a caller that arrives
\* while the closure runs waits for it, later callers pass
INIT_call_once(t) ==
    /\ pc[t] = "call_once"
    /\ INIT # "running"
    /\ IF INIT = "new"
       THEN INIT' = "running" /\ pc' = [pc EXCEPT ![t] = "closure"]
       ELSE INIT' = INIT /\ pc' = [pc EXCEPT ![t] = "lock"]
    /\ UNCHANGED <<wvars, rvars, svars, bvars, nvars, MUTEX, config, codegen_config, optimized>>

INIT_closure_never_completes(t) ==
    /\ pc[t] = "closure"
    /\ MUTEX' = [some |-> TRUE, holder |-> NoThread, created |-> MUTEX.created + 1]
    /\ INIT' = INIT
    /\ pc' = [pc EXCEPT ![t] = "lock"]
    /\ UNCHANGED <<wvars, rvars, svars, bvars, nvars, config, codegen_config, optimized>>

\* the closure: MUTEX = Some(Mutex::new(()))
INIT_closure(t) ==
    /\ pc[t] = "closure"
    /\ MUTEX' = [some |-> TRUE, holder |-> NoThread, created |-> MUTEX.created + 1]
    /\ INIT' = "done"
    /\ pc' = [pc EXCEPT ![t] = "lock"]
    /\ UNCHANGED <<wvars, rvars, svars, bvars, nvars, config, codegen_config, optimized>>

MUTEX_lock_without_waiting(t) ==
    /\ pc[t] = "lock"
    /\ IF ~MUTEX.some
       THEN pc' = [pc EXCEPT ![t] = "panicked"] /\ MUTEX' = MUTEX
       ELSE /\ MUTEX' = [MUTEX EXCEPT !.holder = t]
            /\ pc' = [pc EXCEPT ![t] = "set_optimize"]
    /\ UNCHANGED <<wvars, rvars, svars, bvars, nvars, INIT, config, codegen_config, optimized>>

\* MUTEX.as_ref().expect(..).lock().unwrap(): panics when the mutex is not
\* there, waits while another thread holds it
MUTEX_lock(t) ==
    /\ pc[t] = "lock"
    /\ IF ~MUTEX.some
       THEN pc' = [pc EXCEPT ![t] = "panicked"] /\ MUTEX' = MUTEX
       ELSE /\ MUTEX.holder = NoThread
            /\ MUTEX' = [MUTEX EXCEPT !.holder = t]
            /\ pc' = [pc EXCEPT ![t] = "set_optimize"]
    /\ UNCHANGED <<wvars, rvars, svars, bvars, nvars, INIT, config, codegen_config, optimized>>

\* ffi::BinaryenSetOptimizeLevel(codegen_config.optimization_level)
BinaryenSetOptimizeLevel(t) ==
    /\ pc[t] = "set_optimize"
    /\ config' = [config EXCEPT !.optimization_level = codegen_config[t].optimization_level]
    /\ pc' = [pc EXCEPT ![t] = "set_shrink"]
    /\ UNCHANGED <<wvars, rvars, svars, bvars, nvars, INIT, MUTEX, codegen_config, optimized>>

\* ffi::BinaryenSetShrinkLevel(codegen_config.shrink_level)
BinaryenSetShrinkLevel(t) ==
    /\ pc[t] = "set_shrink"
    /\ config' = [config EXCEPT !.shrink_level = codegen_config[t].shrink_level]
    /\ pc' = [pc EXCEPT ![t] = "set_debug"]
    /\ UNCHANGED <<wvars, rvars, svars, bvars, nvars, INIT, MUTEX, codegen_config, optimized>>

\* ffi::BinaryenSetDebugInfo(codegen_config.debug_info)
BinaryenSetDebugInfo(t) ==
    /\ pc[t] = "set_debug"
    /\ config' = [config EXCEPT !.debug_info = codegen_config[t].debug_info]
    /\ pc' = [pc EXCEPT ![t] = "unlock"]
    /\ UNCHANGED <<wvars, rvars, svars, bvars, nvars, INIT, MUTEX, codegen_config, optimized>>

\* _guard goes out of scope at the end of the unsafe block
MUTEX_unlock(t) ==
    /\ pc[t] = "unlock"
    /\ MUTEX' = [MUTEX EXCEPT !.holder = NoThread]
    /\ pc' = [pc EXCEPT ![t] = "idle"]
    /\ UNCHANGED <<wvars, rvars, svars, bvars, nvars, INIT, config, codegen_config, optimized>>

\* Module::optimize: ffi::BinaryenModuleOptimize(self.inner.raw) and nothing
\* else; the native pass runner takes the global options as they are
Module_optimize(t) ==
    /\ pc[t] = "idle"
    /\ optimized' = [ran |-> TRUE, config |-> config]
    /\ UNCHANGED <<wvars, rvars, svars, bvars, nvars, INIT, MUTEX, config, pc, codegen_config>>

NextConfig ==
    \/ \E t \in Threads : set_global_codegen_config(t)
    \/ \E t \in Threads : INIT_call_once(t)
    \/ \E t \in Threads : INIT_closure(t)
    \/ \E t \in Threads : MUTEX_lock(t)
    \/ \E t \in Threads : BinaryenSetOptimizeLevel(t)
    \/ \E t \in Threads : BinaryenSetShrinkLevel(t)
    \/ \E t \in Threads : BinaryenSetDebugInfo(t)
    \/ \E t \in Threads : MUTEX_unlock(t)
    \/ \E t \in Threads : Module_optimize(t)

SpecConfig == Init /\ [][NextConfig]_vars

(* One call of set_global_codegen_config by each thread, all of them
   possibly at the same time, under a scheduler that lets every thread that
   can take a step take it eventually. *)

\* The first call of thread t.
first_call(t) ==
    /\ codegen_config[t] = DefaultConfig
    /\ set_global_codegen_config(t)

\* One step of thread t inside set_global_codegen_config.
step(t) ==
    \/ INIT_call_once(t)
    \/ INIT_closure(t)
    \/ MUTEX_lock(t)
    \/ BinaryenSetOptimizeLevel(t)
    \/ BinaryenSetShrinkLevel(t)
    \/ BinaryenSetDebugInfo(t)
    \/ MUTEX_unlock(t)

NextCalls ==
    \/ \E t \in Threads : first_call(t)
    \/ \E t \in Threads : INIT_call_once(t)
    \/ \E t \in Threads : INIT_closure(t)
    \/ \E t \in Threads : MUTEX_lock(t)
    \/ \E t \in Threads : BinaryenSetOptimizeLevel(t)
    \/ \E t \in Threads : BinaryenSetShrinkLevel(t)
    \/ \E t \in Threads : BinaryenSetDebugInfo(t)
    \/ \E t \in Threads : MUTEX_unlock(t)

SpecCalls == Init /\ [][NextCalls]_vars /\ \A t \in Threads : WF_vars(step(t))

----------------------------------------------------------------------------
(* Reading a module from bytes and generating one from a seed. *)

\* The number of modules a run of the specification creates, the byte
\* values and the longest buffer it hands in.
MaxModules == 3
MaxBytes == 2
Bytes == {0, 1}
Buffers == UNION {[1..n -> Bytes] : n \in 0..MaxBytes}

\* the byte every encoded module starts with (stands for the format's header)
Header == 0

\* What the native decoder rejects for certain: a buffer that does not start
\* with the header.
Malformed(wasm_buf) == IF Len(wasm_buf) = 0 THEN TRUE ELSE wasm_buf[1] # Header

\* Module::from_raw: the raw module behind a fresh Rc.
Module_from_raw(ms) == Append(ms, [value |-> "live", rc |-> 1, disposed |-> 0])

\* the native module: where it came from, with which features, and whether
\* BinaryenModuleValidate accepts it
NativeModule(origin, all_features, valid) ==
    [origin |-> origin, all_features |-> all_features, valid |-> valid]

\* BinaryenModuleCreate: an empty module
BinaryenModuleCreate == NativeModule("create", FALSE, TRUE)

\* translateToFuzz: the generator's module validates
translateToFuzz(seed, all_features) == NativeModule("fuzz", all_features, TRUE)

\* Module::is_valid
is_valid(m) == wasm[m].valid

Returned(op, input, native, raw) ==
    /\ modules' = Module_from_raw(modules)
    /\ wasm' = Append(wasm, raw)
    /\ tool' = [op |-> op, input |-> input, native |-> native, module |-> Len(modules) + 1]
    /\ UNCHANGED process

\* Module::read: BinaryenModuleRead, then Module::from_raw.  On a buffer that
\* is not correct the native call aborts the program; a buffer it accepts
\* gives a module that may or may not validate.
Module_read ==
    \E wasm_buf \in Buffers :
        /\ process = "running"
        /\ Len(modules) < MaxModules
        /\ \/ /\ Malformed(wasm_buf)
              /\ process' = "aborted"
              /\ tool' = [op |-> "read", input |-> wasm_buf, native |-> TRUE, module |-> 0]
              /\ UNCHANGED <<modules, wasm>>
           \/ /\ ~Malformed(wasm_buf)
              /\ \E valid \in BOOLEAN :
                    Returned("read", wasm_buf, TRUE, NativeModule("read", TRUE, valid))
        /\ UNCHANGED <<debug_assertions, nodes, exprs, reloopers, rblocks, idents, call,
                       rvars, svars, cvars, nvars>>

SeedIgnored(seed) == FALSE

\* seed.len() == 0
SeedIsEmpty(seed) == Len(seed) = 0

\* The body shared by translate_to_fuzz and translate_to_fuzz_mvp.
Translate(op, seed, all_features) ==
    /\ process = "running"
    /\ Len(modules) < MaxModules
    /\ IF SeedIsEmpty(seed)
       THEN Returned(op, seed, FALSE, BinaryenModuleCreate)
       ELSE Returned(op, seed, TRUE, translateToFuzz(seed, all_features))
    /\ UNCHANGED <<debug_assertions, nodes, exprs, reloopers, rblocks, idents, call,
                   rvars, svars, cvars, nvars>>

\* tools::translate_to_fuzz
translate_to_fuzz == \E seed \in Buffers : Translate("translate_to_fuzz", seed, TRUE)

\* tools::translate_to_fuzz_mvp
translate_to_fuzz_mvp == \E seed \in Buffers : Translate("translate_to_fuzz_mvp", seed, FALSE)

\* a Module value goes out of scope while the process runs
Module_dropped ==
    /\ process = "running"
    /\ Module_drop_value

NextBinary ==
    \/ Module_read
    \/ translate_to_fuzz
    \/ translate_to_fuzz_mvp
    \/ Module_dropped

SpecBinary == Init /\ [][NextBinary]_vars

----------------------------------------------------------------------------
(* The construction and declaration calls that take a name. *)

\* The number of objects (modules, nodes, declarations) a run of the
\* specification allocates.
MaxNamed == 4

\* A name is a string of bytes; byte 0 is NUL.  The names the callers pass:
\* the empty one, one without NUL, one with a NUL inside.
Names == {<<>>, <<1>>, <<1, 0, 1>>}
OptNames == {<<>>} \cup {<<name>> : name \in Names}

\* some name of the call holds a NUL byte
HasNul(names) == \E k \in 1..Len(names) : \E j \in 1..Len(names[k]) : names[k][j] = 0

\* CString::new: the bytes followed by the terminating NUL, an error when the
\* bytes hold a NUL themselves.
CString_new(name) ==
    [ok |-> \A k \in 1..Len(name) : name[k] # 0, bytes |-> Append(name, 0)]

UnwrapUnchecked(names) == TRUE

\* to_cstr_stash of each name in turn: CString::new(self).unwrap() panics on
\* the first that is an error.
Unwrap(names) == \A k \in 1..Len(names) : CString_new(names[k]).ok

\* the call panics while converting a name: the unwinding drops the Expr
\* arguments, no native call was made
NamePanics(op, es) ==
    /\ modules' = RcDropAll(modules, es)
    /\ exprs' = exprs (-) SeqToBag(es)
    /\ named' = [op |-> op, nul |-> TRUE, ok |-> FALSE]
    /\ UNCHANGED <<nodes, decls>>

\* A construction call with names: the names are converted first, then the
\* operands are turned into raw references and the native call allocates
\* the node, which Expr::from_raw wraps.
NamedConstruct(op, m, names, es) ==
    /\ ModuleLive(m)
    /\ Allocated + Len(decls) < MaxNamed
    /\ IF Unwrap(names)
       THEN /\ nodes' = Append(nodes, [owner |-> m, children |-> RawsOf(es)])
            /\ exprs' = (exprs (-) SeqToBag(es))
                           (+) SetToBag({Expr_from_raw(m, Len(nodes) + 1)})
            /\ modules' = RcClone(RcDropAll(modules, es),
                                   Expr_from_raw(m, Len(nodes) + 1).module_ref)
            /\ named' = [op |-> op, nul |-> HasNul(names),
                         ok |-> TRUE]
            /\ UNCHANGED decls
       ELSE NamePanics(op, es)
    /\ UNCHANGED <<debug_assertions, reloopers, rblocks, idents, call, rvars, svars, cvars, bvars>>

\* A declaration call with names: the names are converted first, then the
\* native call adds the declaration, taking the raw reference of the Expr
\* it is given.
NamedDeclare(op, m, names, es) ==
    /\ ModuleLive(m)
    /\ Allocated + Len(decls) < MaxNamed
    /\ IF Unwrap(names)
       THEN /\ decls' = Append(decls, [module |-> m, kind |-> op, body |-> RawsOf(es)])
            /\ exprs' = exprs (-) SeqToBag(es)
            /\ modules' = RcDropAll(modules, es)
            /\ named' = [op |-> op, nul |-> HasNul(names),
                         ok |-> TRUE]
            /\ UNCHANGED nodes
       ELSE NamePanics(op, es)
    /\ UNCHANGED <<debug_assertions, reloopers, rblocks, idents, call, rvars, svars, cvars, bvars>>

\* Module::loop_(name, body)
Module_loop_ ==
    \E m \in ModuleIds : \E name \in Names : \E es \in Operands(1) :
        Len(es) = 1 /\ NamedConstruct("loop_", m, <<name>>, es)

\* Module::break_(name, condition, value)
Module_break_ ==
    \E m \in ModuleIds : \E name \in Names : \E es \in Operands(2) :
        NamedConstruct("break_", m, <<name>>, es)

\* Module::switch(names, default_name, condition, value): default_name is
\* converted first, then each of names
Module_switch ==
    \E m \in ModuleIds : \E default_name \in Names : \E names \in OptNames :
        \E es \in Operands(2) :
            Len(es) >= 1 /\ NamedConstruct("switch", m, <<default_name>> \o names, es)

\* Module::block(name, children, ty) with a name given or not
Module_block_named ==
    \E m \in ModuleIds : \E name \in OptNames : \E es \in Operands(2) :
        NamedConstruct("block", m, name, es)

\* Module::call(name, operands, ty)
Module_call ==
    \E m \in ModuleIds : \E name \in Names : \E es \in Operands(2) :
        NamedConstruct("call", m, <<name>>, es)

\* Module::call_indirect(target, operands, ty_name)
Module_call_indirect ==
    \E m \in ModuleIds : \E ty_name \in Names : \E es \in Operands(2) :
        Len(es) >= 1 /\ NamedConstruct("call_indirect", m, <<ty_name>>, es)

\* Module::host(op, name, operands)
Module_host ==
    \E m \in ModuleIds : \E name \in OptNames : \E es \in Operands(1) :
        NamedConstruct("host", m, name, es)

\* Module::get_global(name, ty)
Module_get_global ==
    \E m \in ModuleIds : \E name \in Names :
        NamedConstruct("get_global", m, <<name>>, <<>>)

\* Module::set_global(name, value)
Module_set_global ==
    \E m \in ModuleIds : \E name \in Names : \E es \in Operands(1) :
        Len(es) = 1 /\ NamedConstruct("set_global", m, <<name>>, es)

\* Module::add_fn(name, fn_ty, var_tys, body)
Module_add_fn ==
    \E m \in ModuleIds : \E name \in Names : \E es \in Operands(1) :
        Len(es) = 1 /\ NamedDeclare("add_fn", m, <<name>>, es)

\* Module::add_global(name, ty, mutable, init)
Module_add_global ==
    \E m \in ModuleIds : \E name \in Names : \E es \in Operands(1) :
        Len(es) = 1 /\ NamedDeclare("add_global", m, <<name>>, es)

\* Module::add_fn_import(internal_name, external_module_name,
\* external_base_name, fn_ty)
Module_add_fn_import ==
    \E m \in ModuleIds : \E names \in [1..3 -> Names] :
        NamedDeclare("add_fn_import", m, names, <<>>)

\* Module::add_fn_export(internal_name, external_name)
Module_add_fn_export ==
    \E m \in ModuleIds : \E names \in [1..2 -> Names] :
        NamedDeclare("add_fn_export", m, names, <<>>)

NextNames ==
    \/ Module_new(MaxNamed)
    \/ Module_const_(MaxNamed)
    \/ Module_loop_
    \/ Module_break_
    \/ Module_switch
    \/ Module_block_named
    \/ Module_call
    \/ Module_call_indirect
    \/ Module_host
    \/ Module_get_global
    \/ Module_set_global
    \/ Module_add_fn
    \/ Module_add_global
    \/ Module_add_fn_import
    \/ Module_add_fn_export

SpecNames == Init /\ [][NextNames]_vars

----------------------------------------------------------------------------
(* Function types and functions: FnType and FnRef. *)

\* The number of objects (modules, nodes, declarations) a run of the
\* specification allocates.
MaxFns == 5

\* FnType { raw } and FnRef { inner }: the raw reference alone, with no
\* reference to the module and no lifetime tying it to one.  The value is
\* the index of the declaration the native library made.
FnTypes == {d \in 1..Len(decls) : decls[d].kind = "add_fn_type"}
FnRefs == {d \in 1..Len(decls) : decls[d].kind = "add_fn"}

\* The declaration a native call makes in module m, given the reference
\* uses (0 for none): whether the module that reference was created in is
\* m, and whether it had been disposed by the time of the call.
Declared(op, m, body, uses) ==
    [module |-> m, kind |-> op, body |-> body, uses |-> uses,
     foreign |-> IF uses = 0 THEN FALSE ELSE decls[uses].module # m,
     dangling |-> IF uses = 0 THEN FALSE
                  ELSE modules[decls[uses].module].disposed > 0]

\* Module::add_fn_type: BinaryenAddFunctionType on self, wrapped in FnType.
Module_add_fn_type ==
    \E m \in ModuleIds :
        /\ ModuleLive(m)
        /\ Allocated + Len(decls) < MaxFns
        /\ decls' = Append(decls, Declared("add_fn_type", m, <<>>, 0))
        /\ UNCHANGED <<debug_assertions, modules, nodes, exprs, reloopers, rblocks,
                       idents, call, rvars, svars, cvars, bvars, named>>

\* Module::add_fn with the fn_ty it is given: BinaryenAddFunction on self
\* with fn_ty.raw and body.into_raw(), wrapped in FnRef.
Module_add_fn_of_type ==
    \E m \in ModuleIds : \E fn_ty \in FnTypes : \E es \in Operands(1) :
        /\ ModuleLive(m)
        /\ Len(es) = 1
        /\ Allocated + Len(decls) < MaxFns
        /\ decls' = Append(decls, Declared("add_fn", m, RawsOf(es), fn_ty))
        /\ exprs' = exprs (-) SeqToBag(es)
        /\ modules' = RcDropAll(modules, es)
        /\ UNCHANGED <<debug_assertions, nodes, reloopers, rblocks,
                       idents, call, rvars, svars, cvars, bvars, named>>

\* Module::set_start: BinaryenSetStart on self with fn_ref.inner.
Module_set_start ==
    \E m \in ModuleIds : \E fn_ref \in FnRefs :
        /\ ModuleLive(m)
        /\ Allocated + Len(decls) < MaxFns
        /\ decls' = Append(decls, Declared("set_start", m, <<>>, fn_ref))
        /\ UNCHANGED <<debug_assertions, modules, nodes, exprs, reloopers, rblocks,
                       idents, call, rvars, svars, cvars, bvars, named>>

NextFns ==
    \/ Module_new(MaxFns)
    \/ Module_drop_value
    \/ Module_const_(MaxFns)
    \/ Module_add_fn_type
    \/ Module_add_fn_of_type
    \/ Module_set_start

SpecFns == Init /\ [][NextFns]_vars

----------------------------------------------------------------------------
(* Module::set_memory and its segments. *)

\* The longest list of segments a caller passes.
MaxSegments == 2

\* A usize of a 64-bit target, as its low and its high 32 bits.
usize(lo, hi) == [lo |-> lo, hi |-> hi]

\* data.len() as u32 keeps the low 32 bits of the usize.
as_u32(n) == n.lo

\* The data slices &[u8] the callers pass: where the slice starts and how
\* many bytes it has (none, three, or 2^32 of them).
Slices ==
    {[ptr |-> p, len |-> n] : p \in {1, 2}, n \in {usize(0, 0), usize(3, 0), usize(0, 1)}}

\* Segment::new(data, offset_expr)
Segment_new(data, offset_expr) == [data |-> data, offset_expr |-> offset_expr]

\* The lists of segments over the Exprs es, one segment per Expr, in order.
SegmentLists(es) ==
    {[i \in 1..Len(es) |-> Segment_new(datas[i], es[i])] :
        datas \in [1..Len(es) -> Slices]}

\* Iterator::unzip of a sequence of pairs: the firsts and the seconds, each
\* in the order of the pairs.
unzip(pairs) ==
    <<[i \in 1..Len(pairs) |-> pairs[i][1]], [i \in 1..Len(pairs) |-> pairs[i][2]]>>

\* The arguments set_memory builds for BinaryenSetMemory from the segments.
SetMemoryArgs(segments) ==
    LET mapped == [i \in 1..Len(segments) |->
                      <<<<segments[i].data.ptr, as_u32(segments[i].data.len)>>,
                        Expr_into_raw(segments[i].offset_expr)>>]
        datas_and_sizes == unzip(mapped)[1]
        offset_exprs == unzip(mapped)[2]
        datas == unzip(datas_and_sizes)[1]
        sizes == unzip(datas_and_sizes)[2]
    IN  [datas |-> datas, offset_exprs |-> offset_exprs, sizes |-> sizes,
         segments_count |-> Len(offset_exprs)]

\* Module::set_memory(initial, maximal, name, segments): the name is
\* converted first, then the segments are consumed.
Module_set_memory ==
    \E m \in ModuleIds : \E name \in OptNames : \E es \in Operands(MaxSegments) :
    \E segments \in SegmentLists(es) :
        /\ ModuleLive(m)
        /\ Allocated + Len(decls) < MaxNamed
        /\ IF Unwrap(name)
           THEN /\ decls' = Append(decls,
                      [module |-> m, kind |-> "set_memory", segments |-> segments,
                       args |-> SetMemoryArgs(segments)])
                /\ exprs' = exprs (-) SeqToBag(es)
                /\ modules' = RcDropAll(modules, es)
                /\ named' = [op |-> "set_memory", nul |-> HasNul(name), ok |-> TRUE]
                /\ UNCHANGED nodes
           ELSE NamePanics("set_memory", es)
        /\ UNCHANGED <<debug_assertions, reloopers, rblocks, idents, call, rvars, svars, cvars, bvars>>

NextMemory ==
    \/ Module_new(MaxNamed)
    \/ Module_const_(MaxNamed)
    \/ Module_set_memory

SpecMemory == Init /\ [][NextMemory]_vars

----------------------------------------------------------------------------
(* The pass catalog: binaryen-sys/build.rs generates src/passes.rs. *)

\* The longest pass.cpp, in lines, a run of the specification writes.
MaxLines == 3

\* The names registered in pass.cpp: lower-case letters and hyphens.
PassNames ==
    {<<"a">>, <<"b">>, <<"a", "b">>, <<"a", "-", "b">>, <<"-", "a">>}

\* A line of pass.cpp: a registerPass("name", "description", create) call
\* on one line, which the regular expression of read_passes matches, or any
\* other text, which it does not.
Lines ==
    {[call |-> TRUE, name |-> n, description |-> <<"d">>] : n \in PassNames}
        \cup {[call |-> FALSE, name |-> <<>>, description |-> <<>>]}

\* char::to_uppercase of a letter
to_uppercase(c) == CASE c = "a" -> "A" [] c = "b" -> "B" [] OTHER -> c

\* heck's to_camel_case: the words between the hyphens, each with its first
\* letter in upper case, joined with nothing in between.
RECURSIVE to_camel_case_from(_, _)
to_camel_case_from(name, word_start) ==
    IF name = <<>> THEN <<>>
    ELSE IF Head(name) = "-" THEN to_camel_case_from(Tail(name), TRUE)
    ELSE <<IF word_start THEN to_uppercase(Head(name)) ELSE Head(name)>>
            \o to_camel_case_from(Tail(name), FALSE)
to_camel_case(name) == to_camel_case_from(name, TRUE)

\* read_passes: one Pass per line the regular expression matches, in the
\* order of the lines.
RECURSIVE read_passes(_)
read_passes(lines) ==
    IF lines = <<>> THEN <<>>
    ELSE (IF Head(lines).call
          THEN <<[id |-> to_camel_case(Head(lines).name), name |-> Head(lines).name,
                  description |-> Head(lines).description]>>
          ELSE <<>>) \o read_passes(Tail(lines))

fromstrs_by_id(passes) ==
    [i \in 1..Len(passes) |-> [pattern |-> passes[i].id, pass |-> passes[i].id]]

\* The arms of the generated match: "{name}" => Ok(OptimizationPass::{id})
fromstrs(passes) ==
    [i \in 1..Len(passes) |-> [pattern |-> passes[i].name, pass |-> passes[i].id]]

\* The generated enum compiles only when no two variants have the same
\* identifier, and gen_passes itself indexes passes[0].
Compiles(passes) ==
    /\ passes # <<>>
    /\ \A i, j \in 1..Len(passes) : passes[i].id = passes[j].id => i = j

\* A line is added to pass.cpp, before the build.
write_line ==
    \E line \in Lines :
        /\ ~passes_rs.generated
        /\ Len(pass_cpp) < MaxLines
        /\ pass_cpp' = Append(pass_cpp, line)
        /\ UNCHANGED <<wvars, rvars, cvars, bvars, nvars, passes_rs, lookup, heap, stashes>>

\* gen_passes, and the compilation of what it wrote
gen_passes ==
    /\ ~passes_rs.generated
    /\ Compiles(read_passes(pass_cpp))
    /\ passes_rs' = [generated |-> TRUE, passes |-> read_passes(pass_cpp),
                     fromstrs |-> fromstrs(read_passes(pass_cpp))]
    /\ UNCHANGED <<wvars, rvars, cvars, bvars, nvars, pass_cpp, lookup, heap, stashes>>

\* match s { arms.., _ => Err(()) }: the first arm whose pattern is s
RECURSIVE match(_, _)
match(arms, s) ==
    IF arms = <<>> THEN [ok |-> FALSE, pass |-> <<>>]
    ELSE IF Head(arms).pattern = s THEN [ok |-> TRUE, pass |-> Head(arms).pass]
    ELSE match(Tail(arms), s)

\* The strings a caller looks up: the registered names, the identifiers
\* made of them, and the empty string.
Queries == PassNames \cup {to_camel_case(n) : n \in PassNames} \cup {<<>>}

\* OptimizationPass::from_str(s)
OptimizationPass_from_str ==
    \E s \in Queries :
        /\ passes_rs.generated
        /\ lookup' = [op |-> "from_str", s |-> s, result |-> match(passes_rs.fromstrs, s)]
        /\ UNCHANGED <<wvars, rvars, cvars, bvars, nvars, pass_cpp, passes_rs, heap, stashes>>

NextPasses ==
    \/ write_line
    \/ gen_passes
    \/ OptimizationPass_from_str

SpecPasses == Init /\ [][NextPasses]_vars

----------------------------------------------------------------------------
(* Names handed to the native library: Stash and to_cstr_stash_option. *)

\* The number of Stash values a run of the specification makes, and the
\* number of C strings the caller makes on its own.
MaxStashes == 3
MaxCStrings == 1

\* ptr::null()
null == 0

\* Stash::new(storage, ptr)
Stash_new(storage, ptr) == [storage |-> storage, ptr |-> ptr]

\* A C string on the heap: its bytes, who owns it, whether it was freed.
\* Its address is its index; CString::as_ptr / CStr::as_ptr give that.
CString_alloc(h, name, owner) ==
    Append(h, [bytes |-> CString_new(name).bytes, owner |-> owner, freed |-> FALSE])
free(h, a) == [h EXCEPT ![a].freed = TRUE]

\* The C strings the caller owns and has not dropped.
CallersCStrings == {a \in 1..Len(heap) : heap[a].owner = "caller" /\ ~heap[a].freed}

\* <&str as ToCStr>::to_cstr_stash and <String as ToCStr>::to_cstr_stash
\* once CString::new succeeded and put the string at address a: the
\* CString is the storage.  <&CStr as ToCStr>::to_cstr_stash of the C
\* string at a: the reference is the storage.
to_cstr_stash(a) == Stash_new(a, a)

to_cstr_stash_option_without_storage(name, made) ==
    IF name = <<>> THEN Stash_new(<<>>, null) ELSE Stash_new(<<>>, made.ptr)

\* The match of to_cstr_stash_option: name is None (<<>>) or Some, made is
\* the Stash str.to_cstr_stash() returned.
to_cstr_stash_option_match(name, made) ==
    IF name = <<>> THEN Stash_new(<<>>, null) ELSE Stash_new(<<made.storage>>, made.ptr)

\* The Stash value as the model records it, with the name it was made for.
StashOf(kind, name, stash, state) ==
    [kind |-> kind, name |-> name, storage |-> stash.storage, ptr |-> stash.ptr,
     state |-> state]

\* to_cstr_stash_option(name) with a &str or String: CString::new(..)
\* .unwrap() panics on a NUL byte; a CString the returned Stash does not
\* hold is dropped, and so freed, when the function returns.
to_cstr_stash_option ==
    \E name \in OptNames :
        /\ Len(stashes) < MaxStashes
        /\ IF name = <<>>
           THEN /\ stashes' = Append(stashes,
                      StashOf("str", name, to_cstr_stash_option_match(name, Stash_new(null, null)),
                              "live"))
                /\ heap' = heap
           ELSE IF ~CString_new(name[1]).ok
           THEN /\ stashes' = Append(stashes,
                      StashOf("str", name, Stash_new(<<>>, null), "panicked"))
                /\ heap' = heap
           ELSE LET a == Len(heap) + 1
                    stash == to_cstr_stash_option_match(name, to_cstr_stash(a))
                IN  /\ stashes' = Append(stashes, StashOf("str", name, stash, "live"))
                    /\ heap' = IF stash.storage = <<a>>
                               THEN CString_alloc(heap, name[1], "stash")
                               ELSE free(CString_alloc(heap, name[1], "stash"), a)
        /\ UNCHANGED <<wvars, rvars, cvars, bvars, nvars, pass_cpp, passes_rs, lookup>>

\* The caller makes a CString of its own (CString::new(..).unwrap() on a
\* name without NUL, as in the tests).
CString_new_by_caller ==
    \E name \in Names :
        /\ Cardinality({a \in 1..Len(heap) : heap[a].owner = "caller"}) < MaxCStrings
        /\ CString_new(name).ok
        /\ heap' = CString_alloc(heap, name, "caller")
        /\ UNCHANGED <<wvars, rvars, cvars, bvars, nvars, pass_cpp, passes_rs, lookup, stashes>>

\* to_cstr_stash_option(name) with a &CStr borrowed from the caller
to_cstr_stash_option_cstr ==
    \E a \in CallersCStrings :
        /\ Len(stashes) < MaxStashes
        /\ stashes' = Append(stashes,
              StashOf("cstr", <<SubSeq(heap[a].bytes, 1, Len(heap[a].bytes) - 1)>>,
                      to_cstr_stash_option_match(<<a>>, to_cstr_stash(a)), "live"))
        /\ UNCHANGED <<wvars, rvars, cvars, bvars, nvars, pass_cpp, passes_rs, lookup, heap>>

\* A Stash goes out of scope: a CString it holds is freed, a &CStr is not.
Stash_drop ==
    \E i \in 1..Len(stashes) :
        /\ stashes[i].state = "live"
        /\ stashes' = [stashes EXCEPT ![i].state = "dropped"]
        /\ heap' = IF stashes[i].kind = "str" /\ stashes[i].storage # <<>>
                   THEN free(heap, stashes[i].storage[1])
                   ELSE heap
        /\ UNCHANGED <<wvars, rvars, cvars, bvars, nvars, pass_cpp, passes_rs, lookup>>

\* The caller drops a CString of its own, which the borrow checker allows
\* only when no Stash holds a reference to it.
CString_drop_by_caller ==
    \E a \in CallersCStrings :
        /\ \A i \in 1..Len(stashes) :
              stashes[i].state = "live" => stashes[i].storage # <<a>>
        /\ heap' = free(heap, a)
        /\ UNCHANGED <<wvars, rvars, cvars, bvars, nvars, pass_cpp, passes_rs, lookup, stashes>>

NextStash ==
    \/ to_cstr_stash_option
    \/ CString_new_by_caller
    \/ to_cstr_stash_option_cstr
    \/ Stash_drop
    \/ CString_drop_by_caller

SpecStash == Init /\ [][NextStash]_vars

----------------------------------------------------------------------------
(* Properties *)

NodeIds == 1..Len(nodes)
ChildrenOf(n) == {nodes[n].children[i] : i \in 1..Len(nodes[n].children)}

\* The values that hold an Rc of module m: the Module value, the Exprs and
\* the Reloopers.
Holders(m) ==
    (IF ModuleLive(m) THEN 1 ELSE 0)
    + BagCardinality([e \in {h \in Handles : h.module_ref = m} |-> exprs[e]])
    + Cardinality({r \in 1..Len(reloopers) :
                      reloopers[r].value = "live" /\ reloopers[r].module_ref = m})

\* C1: after any sequence of construction calls no node of a module has a
\* child node that belongs to another module (a construction call given an
\* Expr of another module fails).
C1_NoCrossModuleChild ==
    \A n \in NodeIds : \A c \in ChildrenOf(n) : nodes[c].owner = nodes[n].owner

\* An Expr as a construction call of its module returned it: the marker is
\* the module that owns the node.
CreatedBy(m, e) == e.module_ref = m /\ nodes[e.raw].owner = m

\* C2: a construction call on a module whose operands were all created by
\* that module returns a fresh Expr whose owning-module marker is that
\* module, and every child of the new node is a node of the same module.
C2_SameModuleWellFormed ==
    [][Len(nodes') = Len(nodes) + 1 =>
        LET n == Len(nodes')
            m == nodes'[n].owner
            used == BagToSet(exprs (-) exprs')
        IN  (\A e \in used : CreatedBy(m, e)) =>
               /\ BagIn([module_ref |-> m, raw |-> n], exprs')
               /\ ModuleLive(m)
               /\ modules'[m].rc = modules[m].rc + 1 - BagCardinality(exprs (-) exprs')
               /\ \A i \in 1..Len(nodes'[n].children) :
                     LET c == nodes'[n].children[i] IN c < n /\ nodes[c].owner = m]_vars

C2_Witness ==
    \E n \in NodeIds :
        /\ nodes[n].children # <<>>
        /\ \A c \in ChildrenOf(n) : nodes[c].owner = nodes[n].owner
        /\ BagIn([module_ref |-> nodes[n].owner, raw |-> n], exprs)

\* C3: a native module is not disposed while a Module, Expr or Relooper
\* value referencing it is alive, and is disposed exactly once when the last
\* of them is gone.
C3_DisposedWithLastHolder ==
    \A m \in ModuleIds :
        /\ modules[m].disposed <= 1
        /\ (modules[m].disposed = 1) <=> (Holders(m) = 0)

C3_Witness ==
    \E m \in ModuleIds :
        /\ modules[m].value = "dropped"
        /\ modules[m].disposed = 0
        /\ \E r \in 1..Len(reloopers) :
              reloopers[r].value = "live" /\ reloopers[r].module_ref = m
        /\ \E k \in ModuleIds : modules[k].disposed = 1

\* C4: a Relooper call given an expression of another module panics before
\* anything reaches the native relooper.
C4_ForeignExprRejected ==
    call.foreign => ~call.ok

\* C5: a block identity issued by another Relooper is rejected by
\* add_branch, add_branch_for_switch and render.
C5_AlienBlockRejected ==
    call.alien => ~call.ok

\* The targets of the unconditional edges that leave native block b.
UnconditionalTargets(b) ==
    {rblocks[b].out[i].to : i \in {j \in 1..Len(rblocks[b].out) :
        /\ ~rblocks[b].out[j].for_switch
        /\ rblocks[b].out[j].condition = NoExpr}}

\* C6: a second unconditional edge from a plain block is rejected, so every
\* plain block has at most one unconditional outgoing edge (counted here by
\* target: two unconditional edges to two different blocks already break it).
C6_AtMostOneUnconditional ==
    \A b \in 1..Len(rblocks) :
        ~rblocks[b].switch => Cardinality(UnconditionalTargets(b)) <= 1

\* C7: once a Relooper's native state is disposed by render, no call changes
\* the Relooper, its block table or its native blocks again (no second
\* render, no way back to building).
C7_RenderIsTerminal ==
    [][\A r \in 1..Len(reloopers) :
          reloopers[r].disposed >= 1 =>
              /\ reloopers'[r] = reloopers[r]
              /\ \A b \in 1..Len(rblocks) :
                    rblocks[b].relooper = r => rblocks'[b] = rblocks[b]]_vars

C7_Witness ==
    /\ \E r \in 1..Len(reloopers) :
          reloopers[r].value = "rendered" /\ reloopers[r].disposed = 1
    /\ call.op = "add_branch"
    /\ call.alien







(* Properties of the rendered output *)

Executing == phase # "build"

\* render has returned and nothing of the output has run yet
JustRendered == Executing /\ walk = Walk_at(args.entry)

RECURSIVE OnlyStructured(_, _)
\* every statement is a body, a transfer code, an if/else, a write to a
\* local, a labeled block or loop, or a branch to an enclosing label
\* (a restart only to a loop)
OnlyStructured(ss, enclosing) ==
    \/ ss = <<>>
    \/ LET s == Head(ss)
       IN /\ CASE s.op \in {"body", "code", "set_local"} -> TRUE
               [] s.op \in {"if", "if_local"} ->
                    OnlyStructured(s.body, enclosing) /\ OnlyStructured(s.other, enclosing)
               [] s.op \in {"block", "loop"} ->
                    OnlyStructured(s.body, <<[label |-> s.x, loop |-> s.op = "loop"]>> \o enclosing)
               [] s.op = "branch" ->
                    \E k \in 1..Len(enclosing) :
                        /\ enclosing[k].label = s.x
                        /\ s.y = "restart" => enclosing[k].loop
               [] OTHER -> FALSE
          /\ OnlyStructured(Tail(ss), enclosing)

RECURSIVE CountOp(_, _)
CountOp(ss, op) ==
    IF ss = <<>> THEN 0
    ELSE (IF Head(ss).op = op THEN 1 ELSE 0)
         + CountOp(Head(ss).body, op) + CountOp(Head(ss).other, op)
         + CountOp(Tail(ss), op)

RECURSIVE CountBody(_, _)
CountBody(ss, b) ==
    IF ss = <<>> THEN 0
    ELSE (IF Head(ss).op = "body" /\ Head(ss).x = b THEN 1 ELSE 0)
         + CountBody(Head(ss).body, b) + CountBody(Head(ss).other, b)
         + CountBody(Tail(ss), b)

\* the bodies a run of straight-line statements executes, in order; 0 stands
\* for a condition the run would have to decide
RECURSIVE BodiesRun(_, _)
BodiesRun(c, fuel) ==
    LET q == Quiet(c, MaxQuiet)
    IN IF q.stuck \/ q.todo = <<>> \/ fuel = 0 THEN <<>>
       ELSE IF Head(q.todo).op = "body"
       THEN <<Head(q.todo).x>> \o BodiesRun([q EXCEPT !.todo = Tail(@)], fuel - 1)
       ELSE IF Head(q.todo).op = "code"
       THEN BodiesRun([q EXCEPT !.todo = Tail(@)], fuel - 1)
       ELSE <<0>>

\* does a sequence of statements begin with a dispatch on the local?
IsDispatch(ss, local) ==
    /\ ss # <<>>
    /\ Head(ss).op = "block"
    /\ Head(ss).body # <<>>
    /\ Head(Head(ss).body).op = "if_local"
    /\ Head(Head(ss).body).x = local

RECURSIVE DispatchLoops(_, _)
\* the loops whose body is a dispatch on the local
DispatchLoops(ss, local) ==
    IF ss = <<>> THEN 0
    ELSE (IF Head(ss).op = "loop" /\ IsDispatch(Head(ss).body, local) THEN 1 ELSE 0)
         + DispatchLoops(Head(ss).body, local) + DispatchLoops(Head(ss).other, local)
         + DispatchLoops(Tail(ss), local)

RECURSIVE LocalsUsed(_)
LocalsUsed(ss) ==
    IF ss = <<>> THEN {}
    ELSE (IF Head(ss).op \in {"set_local", "if_local"} THEN {Head(ss).x} ELSE {})
         \cup LocalsUsed(Head(ss).body) \cup LocalsUsed(Head(ss).other)
         \cup LocalsUsed(Tail(ss))

RECURSIVE DispatchValues(_, _)
\* the blocks found by the value of the local, inside a loop
DispatchValues(ss, inLoop) ==
    IF ss = <<>> THEN {}
    ELSE (IF Head(ss).op = "if_local" /\ inLoop THEN {Head(ss).y} ELSE {})
         \cup DispatchValues(Head(ss).body, inLoop \/ Head(ss).op = "loop")
         \cup DispatchValues(Head(ss).other, inLoop)
         \cup DispatchValues(Tail(ss), inLoop)

\* the statements of an edge to target t write t to the local before they
\* branch, when t is one of the targets
ArmWrites(arm, local, targets, t) ==
    t \in targets =>
        /\ arm # <<>>
        /\ arm[Len(arm)].op = "branch"
        /\ \E k \in 1..(Len(arm) - 1) :
              arm[k].op = "set_local" /\ arm[k].x = local /\ arm[k].y = t

DefaultArmWrites(g, b, arm, local, targets) ==
    \/ DefaultIdx(g, b) = 0
    \/ ArmWrites(arm, local, targets, g[b].out[DefaultIdx(g, b)].to)

StartsWithIf(ss) == ss # <<>> /\ Head(ss).op = "if"

RECURSIVE LabelWritten(_, _, _, _)
LabelWritten(ss, g, local, targets) ==
    \/ ss = <<>>
    \/ LET s == Head(ss)
       IN /\ CASE s.op = "body" ->
                    \/ StartsWithIf(Tail(ss))
                    \/ DefaultArmWrites(g, s.x, Tail(ss), local, targets)
               [] s.op = "if" ->
                    /\ ArmWrites(s.body, local, targets, g[s.x].out[s.y].to)
                    /\ \/ StartsWithIf(s.other)
                       \/ DefaultArmWrites(g, s.x, s.other, local, targets)
                    /\ LabelWritten(s.other, g, local, targets)
               [] s.op \in {"block", "loop", "if_local"} ->
                    /\ LabelWritten(s.body, g, local, targets)
                    /\ LabelWritten(s.other, g, local, targets)
               [] OTHER -> TRUE
          /\ LabelWritten(Tail(ss), g, local, targets)

\* a cyclic region: blocks that all reach one another inside the region
Cyclic(g, R) == \A x \in R, y \in R : y \in ReachedFrom(g, R, {}, x)

\* the blocks of R that a walk from the entry can reach before any other
\* block of R
RegionEntries(g, entry, R) ==
    {b \in R : /\ entry \notin R \ {b}
               /\ b \in ReachedFromOrSelf(g, GraphBlocks(g) \ (R \ {b}), {}, entry)}

Irreducible(g, entry) ==
    \E R \in SUBSET GraphBlocks(g) :
        Cyclic(g, R) /\ Cardinality(RegionEntries(g, entry, R)) > 1

TwoBlocks ==
    /\ JustRendered
    /\ Len(graph) = 2
    /\ args.entry = 1
    /\ Len(graph[1].out) = 1
    /\ ~graph[1].out[1].cond
    /\ graph[1].out[1].to = 2
    /\ graph[2].out = <<>>

\* C9: rendered from B1, the graph of two blocks with the one unconditional
\* edge B1 -> B2 runs the body of B1 and then the body of B2, and has no loop.
C9_TwoBlocksInSequence ==
    TwoBlocks =>
        /\ CountOp(prog, "loop") = 0
        /\ BodiesRun(Start(prog), MaxQuiet) = <<1, 2>>

C9_Witness ==
    /\ TwoBlocks
    /\ ~diverged
    /\ Head(todo).op = "body"
    /\ Head(todo).x = 1

\* C10: the output for a graph with a cyclic region of more than one entry
\* holds every reachable block once, has exactly one loop that dispatches on
\* the label_helper local and uses no other local, and every edge to a block
\* found by the dispatch writes that block's value to the local before it
\* branches.
C10_OneDispatchLoop ==
    (JustRendered /\ Irreducible(graph, args.entry)) =>
        /\ \A b \in GraphBlocks(graph) :
              CountBody(prog, b) = (IF b \in LiveBlocks(graph, args.entry) THEN 1 ELSE 0)
        /\ DispatchLoops(prog, args.label_helper) = 1
        /\ LocalsUsed(prog) = {args.label_helper}
        /\ DispatchValues(prog, FALSE) # {}
        /\ LabelWritten(prog, graph, args.label_helper, DispatchValues(prog, FALSE))

C10_Witness ==
    /\ phase = "run"
    /\ Irreducible(graph, args.entry)
    /\ Head(todo).op = "body"
    /\ walk.at \in DispatchValues(prog, FALSE)
    /\ walk.at = Head(todo).x

RECURSIVE CountCode(_, _, _)
\* how many times the transfer code of edge i of block b stands in the output
CountCode(ss, b, i) ==
    IF ss = <<>> THEN 0
    ELSE (IF Head(ss).op = "code" /\ Head(ss).x = b /\ Head(ss).y = i THEN 1 ELSE 0)
         + CountCode(Head(ss).body, b, i) + CountCode(Head(ss).other, b, i)
         + CountCode(Tail(ss), b, i)

RECURSIVE FirstInsertedFirst(_, _)
\* the guarded edges of a block are tested right after its body in the order
\* of their insertion, each in the else arm of the one inserted before it
FirstInsertedFirst(g, ss) ==
    IF ss = <<>> THEN TRUE
    ELSE LET s == Head(ss)
             conds == CondIdx(g, s.x)
         IN /\ s.op = "body" /\ conds # <<>> =>
                  /\ Len(ss) > 1
                  /\ ss[2].op = "if"
                  /\ ss[2].x = s.x
                  /\ ss[2].y = conds[1]
            /\ s.op = "if" =>
                  \A k \in 1..(Len(conds) - 1) : conds[k] = s.y =>
                      /\ s.other # <<>>
                      /\ Head(s.other).op = "if"
                      /\ Head(s.other).x = s.x
                      /\ Head(s.other).y = conds[k + 1]
            /\ FirstInsertedFirst(g, s.body)
            /\ FirstInsertedFirst(g, s.other)
            /\ FirstInsertedFirst(g, Tail(ss))

\* a call adds one block at the end of the block table, or one edge at the end
\* of the edges of one block, and leaves every earlier block and edge in place
InsertedLast ==
    \/ /\ Len(graph') = Len(graph) + 1
       /\ SubSeq(graph', 1, Len(graph)) = graph
       /\ graph'[Len(graph')].out = <<>>
    \/ /\ Len(graph') = Len(graph)
       /\ \E b \in GraphBlocks(graph) :
             /\ Len(graph'[b].out) = Len(graph[b].out) + 1
             /\ SubSeq(graph'[b].out, 1, Len(graph[b].out)) = graph[b].out
             /\ \A c \in GraphBlocks(graph) \ {b} : graph'[c] = graph[c]

WholeConfigs == CodegenConfigs \cup {DefaultConfig}

\* C15: the configuration is read and written under one lock only, so a
\* Module::optimize that runs while another thread is in
\* set_global_codegen_config runs with the initial configuration or with one
\* that a caller passed, never with one of which only some of the three
\* settings were updated.
C15_OptimizeReadsWholeConfig ==
    optimized.ran => optimized.config \in WholeConfigs

(* Properties of reading and generating modules *)

\* C13: Module::read on a buffer that is not a correct module leaves the
\* caller's process running and returns no module (the caller gets an error
\* it can recover from).
C13_ReadFailsRecoverably ==
    tool.op = "read" /\ Malformed(tool.input) => process = "running" /\ tool.module = 0

Fuzzers == {"translate_to_fuzz", "translate_to_fuzz_mvp"}

OneNodeReturned ==
    /\ Len(nodes') = Len(nodes) + 1
    /\ SubSeq(nodes', 1, Len(nodes)) = nodes
    /\ LET e == Expr_from_raw(nodes'[Len(nodes')].owner, Len(nodes'))
       IN /\ CopiesIn(e, exprs') = 1
          /\ modules'[e.module_ref].rc > 0
          /\ modules'[e.module_ref].disposed = 0

\* the step added one declaration
OneDeclarationAdded ==
    /\ Len(decls') = Len(decls) + 1
    /\ SubSeq(decls', 1, Len(decls)) = decls

\* C16: a call either allocates one node and returns a valid handle to it,
\* or adds one declaration, or leaves the nodes and the declarations of
\* every module as they were; a call given a name with a NUL byte in it
\* panics and is of the last kind, whichever call it is.
C16_NoPartialSuccess ==
    [][/\ \/ nodes' = nodes /\ decls' = decls
          \/ OneNodeReturned /\ decls' = decls
          \/ OneDeclarationAdded /\ nodes' = nodes
       /\ named' # named /\ named'.nul =>
             /\ ~named'.ok
             /\ nodes' = nodes
             /\ decls' = decls]_vars

\* a switch given a name with a NUL byte has panicked, after nodes and
\* declarations were added
C16_Witness ==
    /\ named.op = "switch"
    /\ named.nul
    /\ ~named.ok
    /\ Len(nodes) >= 1
    /\ Len(decls) >= 1

(* Properties of the Expr handle *)

RECURSIVE CountIn(_, _)
CountIn(raws, n) ==
    IF raws = <<>> THEN 0
    ELSE (IF Head(raws) = n THEN 1 ELSE 0) + CountIn(Tail(raws), n)

\* the number of live Expr values whose raw reference is node n
HandlesTo(es, n) == BagCardinality([e \in {h \in BagToSet(es) : h.raw = n} |-> es[e]])

\* C17: a construction call adds one node, and each place where a node
\* becomes its child uses up one Expr of that node, so one Expr cannot be
\* passed twice; the Exprs of a node become more
\* only by an explicit re-wrap of its raw reference, which allocates nothing
\* and adds exactly one handle.
C17_OperandConsumed ==
    [][/\ nodes' # nodes =>
             /\ nodes = SubSeq(nodes', 1, Len(nodes))
             /\ Len(nodes') = Len(nodes) + 1
             /\ \A n \in NodeIds :
                   HandlesTo(exprs', n) =
                      HandlesTo(exprs, n) - CountIn(nodes'[Len(nodes')].children, n)
       /\ \A n \in NodeIds :
             HandlesTo(exprs', n) > HandlesTo(exprs, n) =>
                /\ nodes' = nodes
                /\ exprs \sqsubseteq exprs'
                /\ BagCardinality(exprs') = BagCardinality(exprs) + 1]_vars

\* a block built from an Expr and a re-wrap of its raw reference on the same
\* module: the node is twice a child of the block, whose handle was returned
C17_Witness ==
    \E b \in NodeIds :
        /\ Len(nodes[b].children) = 2
        /\ nodes[b].children[1] = nodes[b].children[2]
        /\ nodes[nodes[b].children[1]].owner = nodes[b].owner
        /\ BagIn(Expr_from_raw(nodes[b].owner, b), exprs)

(* Properties of the block identities *)

\* the identities a Relooper has issued
IssuedBy(r) == {b \in idents : b.origin = r}

\* C19: the identities a Relooper has issued are the indices 0 .. n-1 of its
\* block table, one identity per index; the table holds the Relooper's
\* native blocks in the order of the calls that created them, so the k-th
\* call returned index k and its identity still names the block of its own
\* call and kind; and while the Relooper is not rendered every identity it
\* issued is within its table.
C19_IdentityIsTableIndex ==
    \A r \in RelooperIds :
        LET blocks == reloopers[r].blocks
        IN /\ {b.id : b \in IssuedBy(r)} = 0..(Len(blocks) - 1)
           /\ Cardinality(IssuedBy(r)) = Len(blocks)
           /\ \A j, k \in 1..Len(blocks) : j < k => blocks[j] < blocks[k]
           /\ {blocks[k] : k \in 1..Len(blocks)} =
                 {n \in 1..Len(rblocks) : rblocks[n].relooper = r}
           /\ \A b \in IssuedBy(r) :
                 /\ InRange(r, b)
                 /\ rblocks[get_raw_block(r, b)].switch = b.switch

\* a Relooper not yet rendered that has issued the identities 0 and 1, one
\* to a plain block and one to a switch block, next to another Relooper
C19_Witness ==
    \E r \in RelooperIds :
        /\ RelooperLive(r)
        /\ Len(reloopers) >= 2
        /\ \E b, c \in IssuedBy(r) : b.id = 0 /\ c.id = 1 /\ b.switch # c.switch

\* C20: every edge that add_branch added leaves a native block created by
\* add_block, and every edge that add_branch_for_switch added leaves a native
\* block created by add_block_with_switch.
C20_EdgeKindMatchesBlock ==
    \A n \in 1..Len(rblocks) : \A k \in 1..Len(rblocks[n].out) :
        rblocks[n].out[k].for_switch = rblocks[n].switch

----------------------------------------------------------------------------
\* The two calls that add an edge.
BranchCalls == {"add_branch", "add_branch_for_switch"}

\* The native blocks a call may name as the source of an edge: the entries
\* of the block tables of the live Reloopers.
SourceBlocks ==
    UNION {{reloopers[r].blocks[i] : i \in 1..Len(reloopers[r].blocks)} :
              r \in {x \in RelooperIds : RelooperLive(x)}}

\* One edge was appended to the edge list of src and no other native block
\* changed.
OneEdgeAdded(src) ==
    /\ Len(rblocks'[src].out) = Len(rblocks[src].out) + 1
    /\ rblocks' = [rblocks EXCEPT
                     ![src].out = Append(@, rblocks'[src].out[Len(rblocks'[src].out)])]

\* C21: add_branch and add_branch_for_switch leave the block table of every
\* Relooper as it was (the number of blocks, the native block behind each
\* identity, the module the Relooper is bound to) and the identities handed
\* out; among the native blocks only the edge list of one block of a live
\* Relooper's table grows, by one edge, and a call that panics changes no
\* block at all.
C21_BranchLeavesTableUnchanged ==
    [][call'.op \in BranchCalls =>
          /\ reloopers' = reloopers
          /\ idents' = idents
          /\ IF call'.ok /\ rblocks' # rblocks
             THEN \E src \in SourceBlocks : OneEdgeAdded(src)
             ELSE rblocks' = rblocks]_vars

\* An edge was added by a Relooper whose table holds two blocks: the
\* source block has the edge, the other block has none.
C21_Witness ==
    /\ call.op \in BranchCalls
    /\ call.ok
    /\ \E r \in RelooperIds :
          /\ RelooperLive(r)
          /\ Len(reloopers[r].blocks) = 2
          /\ \E i, j \in 1..2 :
                /\ Len(rblocks[reloopers[r].blocks[i]].out) = 1
                /\ Len(rblocks[reloopers[r].blocks[j]].out) = 0

----------------------------------------------------------------------------
\* The Relooper a step creates bears a reference to the Module it was
\* created from: that module is alive and the step adds one owner to it.
CreatedFromItsModule ==
    Len(reloopers') = Len(reloopers) + 1 =>
        LET m == reloopers'[Len(reloopers')].module_ref IN
            /\ ModuleLive(m)
            /\ modules' = RcClone(modules, m)

\* The output of the render of Relooper r: a new node in the arena of the
\* module r is bound to, returned as one new Expr that owns a share of that
\* module, which is not disposed before or after the call.
RenderedInItsModule(r) ==
    LET m == reloopers[r].module_ref IN
        /\ modules[m].disposed = 0
        /\ modules'[m].disposed = 0
        /\ modules'[m].rc >= 1
        /\ Len(nodes') = Len(nodes) + 1
        /\ nodes'[Len(nodes')].owner = m
        /\ exprs' = exprs (+) SetToBag({[module_ref |-> m, raw |-> Len(nodes')]})

\* C22: render allocates its output in the module the Relooper was created
\* from by Module::relooper and returns an Expr that co-owns that module,
\* whichever block is the entry and whether or not the Module value is
\* still alive.
C22_RenderOutputInOwnModule ==
    [][/\ CreatedFromItsModule
       /\ \A r \in RelooperIds :
             RelooperLive(r) /\ reloopers'[r].value = "rendered"
                => RenderedInItsModule(r)]_vars

\* A Relooper whose only block is a switch block was rendered after the
\* Module value it was created from was dropped.
C22_Witness ==
    /\ call.op = "render"
    /\ call.ok
    /\ \E r \in RelooperIds :
          /\ reloopers[r].value = "rendered"
          /\ Len(reloopers[r].blocks) = 1
          /\ rblocks[reloopers[r].blocks[1]].switch
          /\ modules[reloopers[r].module_ref].value = "dropped"
          /\ modules[reloopers[r].module_ref].disposed = 0
          /\ BagIn([module_ref |-> reloopers[r].module_ref, raw |-> Len(nodes)], exprs)

----------------------------------------------------------------------------
\* C23: the native graph state of a Relooper is released exactly once when
\* its lifetime ends, by render or by the value being dropped without
\* render, and never more than once.
C23_RelooperStateReleased ==
    \A r \in RelooperIds :
        /\ reloopers[r].disposed <= 1
        /\ ~RelooperLive(r) => reloopers[r].disposed = 1

----------------------------------------------------------------------------
\* Thread t is between acquiring the lock and releasing it.
InCritical(t) == pc[t] \in {"set_optimize", "set_shrink", "set_debug", "unlock"}

\* C24: at most one thread is between acquiring the lock and the end of
\* the three native setter calls, and it is the thread the lock records as
\* its holder; whenever no thread holds the lock the stored triple is one
\* caller's triple (or the initial setting), never a mix of two, and once
\* every call has returned it is the triple one of the callers passed.
C24_SettersMutuallyExclusive ==
    /\ \A t, u \in Threads : InCritical(t) /\ InCritical(u) => t = u
    /\ \A t \in Threads : InCritical(t) <=> MUTEX.holder = t
    /\ MUTEX.holder = NoThread => config \in WholeConfigs
    /\ (\A t \in Threads : pc[t] = "idle") =>
          \E t \in Threads : config = codegen_config[t]

\* A thread is half way through the setters, the stored triple being a mix
\* of the previous one and its own, while a thread with another triple
\* waits for the lock.
C24_Witness ==
    \E t, u \in Threads :
        /\ pc[t] = "set_shrink"
        /\ pc[u] = "lock"
        /\ codegen_config[t] # codegen_config[u]
        /\ config \notin WholeConfigs

\* Thread t has left INIT.call_once.
PastCallOnce(t) == pc[t] \in {"lock", "panicked"} \/ InCritical(t)

\* C25: the configuration lock is created exactly once however many
\* threads make their first call at the same time: every thread that has
\* left the one-time initialization finds the lock there (the expect never
\* panics), and it is the one lock ever created.
C25_LockCreatedOnce ==
    /\ MUTEX.created <= 1
    /\ MUTEX.some <=> MUTEX.created = 1
    /\ INIT = "done" <=> MUTEX.some
    /\ \A t \in Threads :
          /\ pc[t] # "panicked"
          /\ PastCallOnce(t) => MUTEX.some /\ INIT = "done"

\* Two threads whose first calls overlapped are both past the one-time
\* initialization, before any call has set anything.
C25_Witness ==
    \E t, u \in Threads :
        /\ t # u
        /\ pc[t] = "lock"
        /\ pc[u] = "lock"
        /\ MUTEX.created = 1
        /\ MUTEX.holder = NoThread
        /\ config = DefaultConfig
        /\ optimized.ran = FALSE

\* C26: under fair scheduling every call of set_global_codegen_config
\* returns, whatever the number of threads calling at the same time.
C26_EveryCallReturns ==
    \A t \in Threads : (pc[t] # "idle") ~> (pc[t] = "idle")

\* Every thread has made its call and every call has returned.
C26_Witness ==
    /\ \A t \in Threads : pc[t] = "idle" /\ codegen_config[t] \in CodegenConfigs
    /\ MUTEX.holder = NoThread
    /\ \E t, u \in Threads : codegen_config[t] # codegen_config[u]

----------------------------------------------------------------------------
\* C27: add_fn and set_start hand the native library only a FnType / FnRef
\* that was created by the module they are called on and whose module has
\* not been disposed.
C27_FnTypeOfSameLiveModule ==
    \A d \in 1..Len(decls) :
        decls[d].kind \in {"add_fn", "set_start"} =>
            ~decls[d].foreign /\ ~decls[d].dangling

----------------------------------------------------------------------------
\* C28: for a sequence of n segments set_memory passes a count of n and
\* three arrays of length n in which position i holds the data pointer, the
\* data length and the offset expression of the i-th segment.
C28_SegmentsAligned ==
    \A d \in 1..Len(decls) :
        decls[d].kind = "set_memory" =>
            LET segments == decls[d].segments
                passed == decls[d].args
                n == Len(segments)
            IN  /\ passed.segments_count = n
                /\ Len(passed.datas) = n
                /\ Len(passed.sizes) = n
                /\ Len(passed.offset_exprs) = n
                /\ \A i \in 1..n :
                      /\ passed.datas[i] = segments[i].data.ptr
                      /\ usize(passed.sizes[i], 0) = segments[i].data.len
                      /\ passed.offset_exprs[i] = segments[i].offset_expr.raw

----------------------------------------------------------------------------
\* The names registered in the pass catalog the build read.
Registered == {pass_cpp[i].name : i \in {k \in 1..Len(pass_cpp) : pass_cpp[k].call}}

\* C29: OptimizationPass::from_str returns Ok with the pass of that name for
\* exactly the names registered in the pass catalog, and Err(()) for every
\* other string.
C29_FromStrKnowsExactlyTheCatalog ==
    lookup.op = "from_str" =>
        /\ lookup.result.ok <=> lookup.s \in Registered
        /\ lookup.result.ok => lookup.result.pass = to_camel_case(lookup.s)
        /\ ~lookup.result.ok => lookup.result.pass = <<>>

\* A catalog of two passes, one with a hyphen in its name, and a lookup of
\* the hyphenated name that found the pass whose identifier has none.
C29_Witness ==
    /\ lookup.op = "from_str"
    /\ lookup.result.ok
    /\ Cardinality(Registered) = 2
    /\ lookup.s # lookup.result.pass
    /\ \E i \in 1..Len(lookup.s) : lookup.s[i] = "-"

----------------------------------------------------------------------------
\* C30: the pointer of the Stash to_cstr_stash_option returned is null
\* exactly when the name was None; for Some(name) it is the address of a C
\* string with the bytes of the name and a terminating NUL, held by the
\* storage of the Stash and not freed for as long as the Stash is alive.
C30_NullIffNone ==
    \A i \in 1..Len(stashes) :
        stashes[i].state = "live" =>
            /\ stashes[i].ptr = null <=> stashes[i].name = <<>>
            /\ stashes[i].name = <<>> => stashes[i].storage = <<>>
            /\ stashes[i].name # <<>> =>
                  /\ stashes[i].ptr \in 1..Len(heap)
                  /\ stashes[i].storage = <<stashes[i].ptr>>
                  /\ ~heap[stashes[i].ptr].freed
                  /\ heap[stashes[i].ptr].bytes = Append(stashes[i].name[1], 0)

\* A Stash made of None and a Stash made of Some(name) are alive after
\* another Stash, which held a C string of its own, was dropped.
C30_Witness ==
    \E i, j, k \in 1..Len(stashes) :
        /\ stashes[i].state = "live" /\ stashes[i].name = <<>>
        /\ stashes[j].state = "live" /\ stashes[j].name # <<>> /\ stashes[j].kind = "str"
        /\ stashes[k].state = "dropped" /\ stashes[k].storage # <<>>
        /\ heap[stashes[k].ptr].freed
====
